---- MODULE Spec2Model ----
(***************************************************************************)
(* mlCloudDetect: the hysteresis state tracker (cloud_detect.StateTracker) *)
(* and the continuous detection service (cloud_detect.run_service) with    *)
(* its MQTT publisher (mqtt.MqttPublisher).                                *)
(*                                                                         *)
(* Python values: a bool is TRUE/FALSE; an Optional[bool] is None (the     *)
(* empty tuple) or Some(b) (the one-element tuple <<b>>).                  *)
(***************************************************************************)
EXTENDS Integers, Sequences, FiniteSets, TLC

(* ------------------------------ bounds -------------------------------- *)
\* readings fed to a StateTracker in the tracker harness (TrackerSpec)
MaxReadings == 7
\* largest configured service.pending_count
MaxPendingCount == 3

None == <<>>
Some(b) == <<b>>

\* service.pending_count is an unchecked integer of the configuration file
PendingCounts == (-1) .. MaxPendingCount

(* ---------------------- cloud_detect.StateTracker --------------------- *)

\* StateTracker.__init__
StateTracker(pending_count) ==
    [ pending_count     |-> pending_count,
      current_state     |-> None,
      pending_state     |-> None,
      consecutive_count |-> 0 ]

\* what update returns: the tracker after the call and the returned tuple
Returned(self, state_changed, confirmed_state) ==
    [ self            |-> self,
      state_changed   |-> state_changed,
      confirmed_state |-> confirmed_state ]

\* mutant: the first reading is adopted but not reported as a change
InitialReading_unreported(self, is_cloudy) ==
    Returned([self EXCEPT !.current_state     = Some(is_cloudy),
                          !.pending_state     = None,
                          !.consecutive_count = 0],
             FALSE, is_cloudy)

\* first reading: "if self.current_state is None"
InitialReading(self, is_cloudy) ==
    Returned([self EXCEPT !.current_state     = Some(is_cloudy),
                          !.pending_state     = None,
                          !.consecutive_count = 0],
             TRUE, is_cloudy)

\* mutant: the candidate is dropped but the counter is not reset
CancelPending_keepCount(self) ==
    Returned([self EXCEPT !.pending_state = None],
             FALSE, self.current_state[1])

\* reading equal to the confirmed state: reset pending
CancelPending(self) ==
    Returned([self EXCEPT !.pending_state     = None,
                          !.consecutive_count = 0],
             FALSE, self.current_state[1])

\* mutant: the candidate recorded is the confirmed state, not the reading
StartPending_recordsCurrent(self, is_cloudy) ==
    [self EXCEPT !.pending_state     = self.current_state,
                 !.consecutive_count = 1]

\* "if self.pending_state is None": start a pending transition
StartPending(self, is_cloudy) ==
    [self EXCEPT !.pending_state     = Some(is_cloudy),
                 !.consecutive_count = 1]

\* mutant: off by one, confirms one reading early
ThresholdReached_early(consecutive_count, pending_count) ==
    consecutive_count + 1 >= pending_count

\* mutant: off by one, strict comparison confirms one reading late
ThresholdReached_late(consecutive_count, pending_count) ==
    consecutive_count > pending_count

\* mutant: a threshold that is not positive is never reached
ThresholdReached_positiveOnly(consecutive_count, pending_count) ==
    pending_count > 0 /\ consecutive_count >= pending_count

\* "if self.consecutive_count >= self.pending_count"
ThresholdReached(consecutive_count, pending_count) ==
    consecutive_count >= pending_count

\* mutant: the transition is confirmed but the counter is not reset
ConfirmTransition_keepCount(self, is_cloudy) ==
    Returned([self EXCEPT !.current_state = Some(is_cloudy),
                          !.pending_state = None],
             TRUE, is_cloudy)

\* mutant: the confirmed candidate is left in pending_state
ConfirmTransition_keepPending(self, is_cloudy) ==
    Returned([self EXCEPT !.current_state     = Some(is_cloudy),
                          !.consecutive_count = 0],
             TRUE, is_cloudy)

\* transition confirmed
ConfirmTransition(self, is_cloudy) ==
    Returned([self EXCEPT !.current_state     = Some(is_cloudy),
                          !.pending_state     = None,
                          !.consecutive_count = 0],
             TRUE, is_cloudy)

\* "elif is_cloudy == self.pending_state": continue the pending transition
ContinuePending(self, is_cloudy) ==
    LET counted == [self EXCEPT !.consecutive_count = @ + 1]
    IN  IF ThresholdReached(counted.consecutive_count, counted.pending_count)
        THEN ConfirmTransition(counted, is_cloudy)
        ELSE Returned(counted, FALSE, counted.current_state[1])

\* "else": the pending state changed direction, restart
RestartPending(self, is_cloudy) ==
    [self EXCEPT !.pending_state     = Some(is_cloudy),
                 !.consecutive_count = 1]

\* StateTracker.update
update(self, is_cloudy) ==
    IF self.current_state = None
    THEN InitialReading(self, is_cloudy)
    ELSE IF Some(is_cloudy) = self.current_state
    THEN CancelPending(self)
    ELSE IF self.pending_state = None
    THEN LET started == StartPending(self, is_cloudy)
         IN  Returned(started, FALSE, started.current_state[1])
    ELSE IF Some(is_cloudy) = self.pending_state
    THEN ContinuePending(self, is_cloudy)
    ELSE LET restarted == RestartPending(self, is_cloudy)
         IN  Returned(restarted, FALSE, restarted.current_state[1])

(* ----------------------------- detector ------------------------------- *)
\* str.lower() on the class names the labels file can hold
Lower(class_name) ==
    CASE class_name = "Clear"  -> "clear"
      [] class_name = "Cloudy" -> "cloudy"

\* the class names of the labels file
ClassNames == { "Clear", "Cloudy" }

\* the one image the camera source returns
LatestImage == "latest.jpg"

\* CloudDetector.detect: the DetectionResult for the winning class
\* (confidence, a float that no decision reads, is left out)
DetectionResult(class_name, image_path) ==
    [ is_cloudy  |-> Lower(class_name) # "clear",
      class_name |-> class_name,
      image_path |-> image_path ]

DetectionResults == { DetectionResult(c, LatestImage) : c \in ClassNames }

\* exceptions ImageSource.get_latest_image raises
FetchErrors == { "FileNotFoundError", "RuntimeError" }
\* exceptions CloudDetector.detect raises
DetectErrors == { "FileNotFoundError", "Exception" }

(* --------------------------- configuration ---------------------------- *)
\* time is counted in half seconds: time.sleep(1.0) is 2 units
SleepSlice == 2
\* largest configured service.interval, in half seconds
MaxInterval == 3
\* largest service.pending_count of a configuration the process is run with
MaxServicePendingCount == 2
\* observatory.daytime_threshold, degrees
DaytimeThreshold == -12

\* sun altitudes get_sun_altitude can return, in degrees
Altitudes == DaytimeThreshold .. (DaytimeThreshold + 1)

Coordinates == { 0, 1 }

\* the configurations load_config can return (ha_discovery is read only
\* with mqtt enabled)
Configs ==
    { c \in [ latitude      : Coordinates,
              longitude     : Coordinates,
              interval      : 0 .. MaxInterval,
              pending_count : 1 .. MaxServicePendingCount,
              mqtt_enabled  : BOOLEAN,
              ha_discovery  : BOOLEAN,
              mode          : { "single", "continuous" } ] :
        ~c.mqtt_enabled => c.ha_discovery }

\* the path an -i/--image argument names
GivenImage == "given.jpg"

\* the command lines parse_args accepts (-q is the variable quiet): -i takes
\* any string, the empty one included
Args == [ image : { None, Some(GivenImage), Some("") }, single : BOOLEAN ]

\* the truth value Python gives a "str | None": None and "" are false
Truthy(image_path) == image_path # None /\ image_path[1] # ""

\* main: "if args.image or args.single or config.service.mode == 'single'"
SingleMode(a, c) ==
    Truthy(a.image) \/ a.single \/ c.mode = "single"

(* ------------------------------- state -------------------------------- *)
VARIABLES
    config,             \* the Config load_config returns
    quiet,              \* args.quiet
    args,               \* args.image and args.single
    pc,                 \* where the control thread is
    exc,                \* the exception being handled, or None
    exit_code,          \* what main returned, or None
    shutdown_requested, \* _shutdown_requested
    state_tracker,      \* the StateTracker object
    state_changed,      \* first component of the last update's return value
    confirmed_state,    \* second component (None before the first update)
    sun_altitude,       \* run_service's local, None or Some(degrees)
    is_daytime,         \* run_service's local
    result,             \* run_service's local: None or Some(DetectionResult)
    wait_time,          \* run_service's local, half seconds
    mqtt_publisher,     \* whether main created an MqttPublisher
    client,             \* MqttPublisher.client: "None", "created", "looping",
                        \* "stopping", "stopped"
    connected,          \* MqttPublisher._connected
    cb_pc,              \* where the transport's callback thread is
    transport,          \* per topic, the last message handed to client.publish
    handed,             \* history: per thread, the messages handed to
                        \* client.publish by this tick's publish call and by
                        \* the latest run of the connect callback
    tick_trace,         \* history: the steps of the current tick, in order
    publish_args,       \* history: arguments of this tick's publish calls
    publish_returned,   \* history: what this tick's publish calls returned
    tick_start,         \* history: the tracker when the current tick began
    slept,              \* history: the time slept in the current wait, or
                        \* None outside the wait
    reason_codes,       \* history: the reason codes of the connect callbacks
                        \* delivered to the publisher on its own
    legacy,             \* the legacy loop's cloudCount, clearCount, roofStatus,
                        \* its PENDING setting, status file and last publish
    readings            \* history: the readings fed to update (tracker
                        \* harness) and the results of isCloudy (legacy loop)

tracker_vars == << state_tracker, state_changed, confirmed_state >>
local_vars   == << sun_altitude, is_daytime, result, wait_time >>
mqtt_vars    == << mqtt_publisher, client, connected, cb_pc, transport, handed >>
hist_vars    == << tick_trace, publish_args, publish_returned, tick_start, slept >>

vars == << config, quiet, args, pc, exc, exit_code, shutdown_requested,
           state_tracker, state_changed, confirmed_state,
           sun_altitude, is_daytime, result, wait_time,
           mqtt_publisher, client, connected, cb_pc, transport, handed,
           tick_trace, publish_args, publish_returned, tick_start, slept, readings,
           reason_codes, legacy >>

(* ----------------------------- MqttPublisher -------------------------- *)
StateTopic == "mlclouddetect/status"

DiscoveryTopics ==
    << "homeassistant/sensor/mlclouddetect/sky_condition/config",
       "homeassistant/binary_sensor/mlclouddetect/is_cloudy/config",
       "homeassistant/sensor/mlclouddetect/confidence/config" >>

Topics == { StateTopic } \cup { DiscoveryTopics[i] : i \in 1 .. 3 }

\* the three discovery documents _publish_ha_discovery builds
DiscoveryDocs ==
    << [ name |-> "Sky Condition", unique_id |-> "mlclouddetect_sky_condition",
         state_topic |-> StateTopic, value_template |-> "{{ value_json.class_name }}" ],
       [ name |-> "Is Cloudy", unique_id |-> "mlclouddetect_is_cloudy",
         state_topic |-> StateTopic, value_template |-> "{{ value_json.is_cloudy }}" ],
       [ name |-> "Detection Confidence", unique_id |-> "mlclouddetect_confidence",
         state_topic |-> StateTopic, value_template |-> "{{ value_json.confidence }}" ] >>

\* a message as client.publish receives it
Message(payload, retain) == [ payload |-> payload, retain |-> retain ]

\* the payload MqttPublisher.publish builds (the timestamp and the
\* confidence, which no decision reads, are left out)
Payload(res, sun) ==
    [ state        |-> IF res.is_cloudy THEN "cloudy" ELSE "clear",
      class_name   |-> res.class_name,
      is_cloudy    |-> res.is_cloudy,
      image_path   |-> res.image_path,
      sun_altitude |-> sun ]

\* client.publish(topic, payload, retain=...), called on a thread
Hand(thread, topic, payload, retain) ==
    /\ transport' = [transport EXCEPT ![topic] = Some(Message(payload, retain))]
    /\ handed' = [handed EXCEPT ![thread] =
                    Append(@, [ topic |-> topic, message |-> Message(payload, retain) ])]

\* mutant: the connection flag is not consulted
publish_ignoresConnected(res, sun, returned) ==
    IF ~config.mqtt_enabled
    THEN UNCHANGED << transport, handed >> /\ returned = FALSE
    ELSE \/ Hand("control", StateTopic, Payload(res, sun), TRUE) /\ returned = TRUE
         \/ UNCHANGED << transport, handed >> /\ returned = FALSE

\* MqttPublisher.publish: hands the payload over and returns True when
\* enabled and connected, unless the transport raises (caught); returns
\* False otherwise
publish(res, sun, returned) ==
    IF ~config.mqtt_enabled \/ ~connected
    THEN UNCHANGED << transport, handed >> /\ returned = FALSE
    ELSE \/ Hand("control", StateTopic, Payload(res, sun), TRUE) /\ returned = TRUE
         \/ UNCHANGED << transport, handed >> /\ returned = FALSE

(* ------------------------- the callback thread ------------------------ *)
\* mutant: the discovery documents are sent on the first connection only
OnConnectSuccess_discoveryOnce ==
    /\ client = "looping" /\ cb_pc = "idle"
    /\ connected' = TRUE
    /\ cb_pc' = IF config.ha_discovery /\ transport[DiscoveryTopics[3]] = None
              THEN "discovery1" ELSE "idle"
    /\ handed' = [handed EXCEPT !["callback"] = <<>>]
    /\ UNCHANGED << config, quiet, args, pc, exc, exit_code, shutdown_requested,
                    tracker_vars, local_vars, mqtt_publisher, client, transport,
                    hist_vars, readings,
                    reason_codes, legacy >>

\* the reason codes a connect callback is given: 0 is success
FailureCodes == { 1, 5 }
ReasonCodes == { 0 } \cup FailureCodes

\* mutant: the reason code is not looked at
on_connect_anyReason(reason_code) ==
    /\ connected' = TRUE
    /\ cb_pc' = IF config.ha_discovery THEN "discovery1" ELSE "idle"
    /\ handed' = [handed EXCEPT !["callback"] = <<>>]

\* MqttPublisher._on_connect: with reason_code 0 the flag is set, then, with
\* ha_discovery, the three documents are handed over one call at a time;
\* any other code is logged only
on_connect(reason_code) ==
    IF reason_code = 0
    THEN /\ connected' = TRUE
         /\ cb_pc' = IF config.ha_discovery THEN "discovery1" ELSE "idle"
         /\ handed' = [handed EXCEPT !["callback"] = <<>>]
    ELSE UNCHANGED << connected, cb_pc, handed >>

\* the transport calls _on_connect with reason_code 0
OnConnectSuccess ==
    /\ client = "looping" /\ cb_pc = "idle"
    /\ on_connect(0)
    /\ UNCHANGED << config, quiet, args, pc, exc, exit_code, shutdown_requested,
                    tracker_vars, local_vars, mqtt_publisher, client, transport,
                    hist_vars, readings,
                    reason_codes, legacy >>

\* the transport calls _on_connect with a failure reason code
OnConnectFailure ==
    /\ client = "looping" /\ cb_pc = "idle"
    /\ \E reason_code \in FailureCodes : on_connect(reason_code)
    /\ UNCHANGED << config, quiet, args, pc, exc, exit_code, shutdown_requested,
                    tracker_vars, local_vars, mqtt_publisher, client, transport,
                    hist_vars, readings,
                    reason_codes, legacy >>

\* mutant: the discovery documents are not retained
PublishDiscovery_notRetained(i) ==
    /\ cb_pc = "discovery" \o ToString(i)
    /\ Hand("callback", DiscoveryTopics[i], DiscoveryDocs[i], FALSE)
    /\ cb_pc' = IF i < 3 THEN "discovery" \o ToString(i + 1) ELSE "idle"
    /\ UNCHANGED << config, quiet, args, pc, exc, exit_code, shutdown_requested,
                    tracker_vars, local_vars, mqtt_publisher, client, connected,
                    hist_vars, readings,
                    reason_codes, legacy >>

\* MqttPublisher._publish_ha_discovery, its i-th client.publish
PublishDiscovery(i) ==
    /\ cb_pc = "discovery" \o ToString(i)
    /\ Hand("callback", DiscoveryTopics[i], DiscoveryDocs[i], TRUE)
    /\ cb_pc' = IF i < 3 THEN "discovery" \o ToString(i + 1) ELSE "idle"
    /\ UNCHANGED << config, quiet, args, pc, exc, exit_code, shutdown_requested,
                    tracker_vars, local_vars, mqtt_publisher, client, connected,
                    hist_vars, readings,
                    reason_codes, legacy >>

\* MqttPublisher._on_disconnect
OnDisconnect ==
    /\ client = "looping" /\ cb_pc = "idle"
    /\ connected = TRUE
    /\ connected' = FALSE
    /\ UNCHANGED << config, quiet, args, pc, exc, exit_code, shutdown_requested,
                    tracker_vars, local_vars, mqtt_publisher, client, cb_pc,
                    transport, handed, hist_vars, readings,
                    reason_codes, legacy >>

(* ------------------------------ signals ------------------------------- *)
\* where the control thread is inside the loop's try block
TickPcs == { "gate", "skip", "fetch", "detect", "update", "print", "publish" }
HandlerPcs == { "except_fnf", "except_any" }
WaitPcs == { "wait", "sleep_test", "sleeping" }
LoopPcs == { "loop" } \cup TickPcs \cup HandlerPcs \cup WaitPcs

\* signal_handler, run for SIGTERM or SIGINT while main is running (the
\* history of a tick records a signal that arrives while the image is being
\* classified)
Signal ==
    /\ pc # "exit"
    /\ ~shutdown_requested
    /\ shutdown_requested' = TRUE
    /\ tick_trace' = IF pc = "detect" THEN Append(tick_trace, "signal")
                                      ELSE tick_trace
    /\ UNCHANGED << config, quiet, args, pc, exc, exit_code, tracker_vars, local_vars,
                    mqtt_vars, publish_args, publish_returned, tick_start,
                    slept, readings,
                    reason_codes, legacy >>

(* -------------------------------- main -------------------------------- *)
\* main: load_config, which may raise
MainLoadConfig ==
    /\ pc = "main"
    /\ \/ pc' = "mqtt_init" /\ exc' = None
       \/ pc' = "main_except" /\ exc' = Some("Exception")
    /\ UNCHANGED << config, quiet, args, exit_code, shutdown_requested, tracker_vars,
                    local_vars, mqtt_vars, hist_vars, readings,
                    reason_codes, legacy >>

\* MqttPublisher.connect: the client is created and its network loop
\* started, unless creating it or connecting to the broker raises
connect ==
    \/ client' = "looping"
    \/ client' = "created"
    \/ client' = "None"

\* mutant: a connect that fails is an exception main answers with exit code 1
MainMqttInit_connectFailureFatal ==
    /\ pc = "mqtt_init"
    /\ IF config.mqtt_enabled
       THEN mqtt_publisher' = TRUE /\ connect
       ELSE UNCHANGED << mqtt_publisher, client >>
    /\ IF config.mqtt_enabled /\ client' # "looping"
       THEN pc' = "main_except" /\ exc' = Some("Exception")
       ELSE /\ pc' = IF SingleMode(args, config) THEN "single" ELSE "service"
            /\ UNCHANGED exc
    /\ UNCHANGED << config, quiet, args, exit_code, shutdown_requested,
                    tracker_vars, local_vars, connected, cb_pc, transport, handed,
                    hist_vars, readings,
                    reason_codes, legacy >>

\* main: "if config.mqtt.enabled": create the publisher and connect; then
\* the run mode is chosen
MainMqttInit ==
    /\ pc = "mqtt_init"
    /\ IF config.mqtt_enabled
       THEN mqtt_publisher' = TRUE /\ connect
       ELSE UNCHANGED << mqtt_publisher, client >>
    /\ pc' = IF SingleMode(args, config) THEN "single" ELSE "service"
    /\ UNCHANGED << config, quiet, args, exc, exit_code, shutdown_requested,
                    tracker_vars, local_vars, connected, cb_pc, transport, handed,
                    hist_vars, readings,
                    reason_codes, legacy >>

\* mutant: an escaped exception is logged and main returns 0
MainExcept_returnsZero ==
    /\ pc = "main_except"
    /\ exit_code' = Some(0)
    /\ exc' = None
    /\ pc' = "finally"
    /\ UNCHANGED << config, quiet, args, shutdown_requested, tracker_vars, local_vars,
                    mqtt_vars, hist_vars, readings,
                    reason_codes, legacy >>

\* main: "except ...: return 1"
MainExcept ==
    /\ pc = "main_except"
    /\ exit_code' = Some(1)
    /\ exc' = None
    /\ pc' = "finally"
    /\ UNCHANGED << config, quiet, args, shutdown_requested, tracker_vars, local_vars,
                    mqtt_vars, hist_vars, readings,
                    reason_codes, legacy >>

\* mutant: main ends without the finally clause
MainFinally_skipsDisconnect ==
    /\ pc = "finally"
    /\ pc' = "exit"
    /\ UNCHANGED << config, quiet, args, exc, exit_code, shutdown_requested,
                    tracker_vars, local_vars, mqtt_vars, hist_vars, readings,
                    reason_codes, legacy >>

\* main: "finally: if mqtt_publisher: mqtt_publisher.disconnect()", as far
\* as loop_stop telling the callback thread to end: no callback begins after
MainFinally ==
    /\ pc = "finally"
    /\ IF mqtt_publisher /\ client # "None"
       THEN client' = "stopping" /\ pc' = "disconnect"
       ELSE UNCHANGED client /\ pc' = "exit"
    /\ UNCHANGED << config, quiet, args, exc, exit_code, shutdown_requested,
                    tracker_vars, local_vars, mqtt_publisher, connected, cb_pc,
                    transport, handed, hist_vars, readings,
                    reason_codes, legacy >>

\* MqttPublisher.disconnect, the rest: loop_stop has joined the callback
\* thread, then client.disconnect() and "_connected = False"
disconnect ==
    /\ pc = "disconnect"
    /\ cb_pc = "idle"
    /\ client' = "stopped"
    /\ connected' = FALSE
    /\ pc' = "exit"
    /\ UNCHANGED << config, quiet, args, exc, exit_code, shutdown_requested,
                    tracker_vars, local_vars, mqtt_publisher, cb_pc, transport,
                    handed, hist_vars, readings,
                    reason_codes, legacy >>

(* ----------------------------- run_service ---------------------------- *)
\* Console output (print) raises OSError when standard output is broken;
\* it is only attempted when not quiet.

\* mutant: only "except FileNotFoundError" guards the tick
RaiseInTick_onlyFileNotFound(e) ==
    /\ exc' = Some(e)
    /\ pc' = IF e = "FileNotFoundError" THEN "except_fnf" ELSE "main_except"

\* mutant: a missing file is not handled in the loop
RaiseInTick_missingFileEscapes(e) ==
    /\ exc' = Some(e)
    /\ pc' = IF e = "FileNotFoundError" THEN "main_except" ELSE "except_any"

\* an exception raised inside the loop's try block: "except
\* FileNotFoundError" or "except Exception"
RaiseInTick(e) ==
    /\ exc' = Some(e)
    /\ pc' = IF e = "FileNotFoundError" THEN "except_fnf" ELSE "except_any"

\* run_service, before the loop: the tracker, the detector (its model file
\* may be missing or unreadable) and the image source are created
ServiceStart ==
    /\ pc = "service"
    /\ state_tracker' = StateTracker(config.pending_count)
    /\ \/ pc' = "loop" /\ exc' = None
       \/ \E e \in { "FileNotFoundError", "Exception" } :
            pc' = "main_except" /\ exc' = Some(e)
       \/ ~quiet /\ pc' = "main_except" /\ exc' = Some("OSError")
    /\ UNCHANGED << config, quiet, args, exit_code, shutdown_requested, state_changed,
                    confirmed_state, local_vars, mqtt_vars, hist_vars, readings,
                    reason_codes, legacy >>

\* mutant: "while True:", the loop head never looks at the flag
LoopHead_ignoresShutdown ==
    /\ pc = "loop"
    /\ pc' = "gate"
    /\ tick_trace' = <<>>
    /\ publish_args' = <<>>
    /\ publish_returned' = <<>>
    /\ tick_start' = state_tracker
    /\ slept' = None
    /\ UNCHANGED << config, quiet, args, exc, exit_code, shutdown_requested,
                    tracker_vars, local_vars, mqtt_vars, readings,
                    reason_codes, legacy >>

\* "while not _shutdown_requested:"
LoopHead ==
    /\ pc = "loop"
    /\ IF ~shutdown_requested
       THEN /\ pc' = "gate"
            /\ tick_trace' = <<>>
            /\ publish_args' = <<>>
            /\ publish_returned' = <<>>
            /\ tick_start' = state_tracker
            /\ slept' = None
       ELSE /\ pc' = "stopped"
            /\ UNCHANGED hist_vars
    /\ UNCHANGED << config, quiet, args, exc, exit_code, shutdown_requested,
                    tracker_vars, local_vars, mqtt_vars, readings,
                    reason_codes, legacy >>

\* mutant: the location is taken as configured whatever it is
LocationConfigured_noSentinel(latitude, longitude) ==
    TRUE

\* "if latitude != 0.0 or longitude != 0.0"
LocationConfigured(latitude, longitude) ==
    latitude # 0 \/ longitude # 0

\* mutant: an altitude equal to the threshold counts as daytime
IsDaytime_inclusive(altitude, threshold) ==
    altitude >= threshold

\* "is_daytime = sun_altitude > config.observatory.daytime_threshold"
IsDaytime(altitude, threshold) ==
    altitude > threshold

\* the sun check that opens a tick
Gate ==
    /\ pc = "gate"
    /\ tick_trace' = Append(tick_trace, "gate")
    /\ IF LocationConfigured(config.latitude, config.longitude)
       THEN \/ \E a \in Altitudes :
                 /\ sun_altitude' = Some(a)
                 /\ is_daytime' = IsDaytime(a, DaytimeThreshold)
                 /\ pc' = IF is_daytime' THEN "skip" ELSE "fetch"
                 /\ UNCHANGED exc
            \/ /\ sun_altitude' = None
               /\ is_daytime' = FALSE
               /\ RaiseInTick("Exception")
       ELSE /\ sun_altitude' = None
            /\ is_daytime' = FALSE
            /\ pc' = "fetch"
            /\ UNCHANGED exc
    /\ UNCHANGED << config, quiet, args, exit_code, shutdown_requested, tracker_vars,
                    result, wait_time, mqtt_vars, publish_args, publish_returned, tick_start,
                    slept, readings,
                    reason_codes, legacy >>

\* mutant: a gated tick starts the tracker afresh
Skip_forgetsState ==
    /\ pc = "skip"
    /\ tick_trace' = Append(tick_trace, "skip")
    /\ state_tracker' = StateTracker(state_tracker.pending_count)
    /\ \/ pc' = "wait" /\ UNCHANGED exc
       \/ ~quiet /\ RaiseInTick("OSError")
    /\ UNCHANGED << config, quiet, args, exit_code, shutdown_requested,
                    state_changed, confirmed_state, local_vars, mqtt_vars,
                    publish_args, publish_returned, tick_start, slept, readings,
                    reason_codes, legacy >>

\* mutant: a gated tick drops the pending transition
Skip_dropsPending ==
    /\ pc = "skip"
    /\ tick_trace' = Append(tick_trace, "skip")
    /\ state_tracker' = [ state_tracker EXCEPT !.pending_state = None,
                                               !.consecutive_count = 0 ]
    /\ \/ pc' = "wait" /\ UNCHANGED exc
       \/ ~quiet /\ RaiseInTick("OSError")
    /\ UNCHANGED << config, quiet, args, exit_code, shutdown_requested,
                    state_changed, confirmed_state, local_vars, mqtt_vars,
                    publish_args, publish_returned, tick_start, slept, readings,
                    reason_codes, legacy >>

\* "if is_daytime:" the notice that detection is skipped
Skip ==
    /\ pc = "skip"
    /\ tick_trace' = Append(tick_trace, "skip")
    /\ \/ pc' = "wait" /\ UNCHANGED exc
       \/ ~quiet /\ RaiseInTick("OSError")
    /\ UNCHANGED << config, quiet, args, exit_code, shutdown_requested, tracker_vars,
                    local_vars, mqtt_vars, publish_args, publish_returned, tick_start, slept, readings,
                    reason_codes, legacy >>

\* "image_path = source.get_latest_image()"
Fetch ==
    /\ pc = "fetch"
    /\ \/ /\ tick_trace' = Append(tick_trace, "fetch")
          /\ pc' = "detect" /\ UNCHANGED exc
       \/ /\ tick_trace' = Append(tick_trace, "fetch failed")
          /\ \E e \in FetchErrors : RaiseInTick(e)
    /\ UNCHANGED << config, quiet, args, exit_code, shutdown_requested, tracker_vars,
                    local_vars, mqtt_vars, publish_args, publish_returned, tick_start, slept, readings,
                    reason_codes, legacy >>

\* "result = detector.detect(image_path)"
Detect ==
    /\ pc = "detect"
    /\ \/ /\ tick_trace' = Append(tick_trace, "detect")
          /\ \E r \in DetectionResults : result' = Some(r)
          /\ pc' = "update" /\ UNCHANGED exc
       \/ /\ tick_trace' = Append(tick_trace, "detect failed")
          /\ \E e \in DetectErrors : RaiseInTick(e)
          /\ UNCHANGED result
    /\ UNCHANGED << config, quiet, args, exit_code, shutdown_requested, tracker_vars,
                    sun_altitude, is_daytime, wait_time, mqtt_vars, publish_args,
                    publish_returned, tick_start, slept, readings,
                    reason_codes, legacy >>

\* mutant: a tick that finds the flag set is abandoned before the update
Update_abandonedOnShutdown ==
    /\ pc = "update"
    /\ IF shutdown_requested
       THEN /\ pc' = "wait"
            /\ UNCHANGED << tracker_vars, tick_trace >>
       ELSE /\ tick_trace' = Append(tick_trace, "update")
            /\ LET r == update(state_tracker, result[1].is_cloudy)
               IN  /\ state_tracker' = r.self
                   /\ state_changed' = r.state_changed
                   /\ confirmed_state' = Some(r.confirmed_state)
            /\ pc' = "print"
    /\ UNCHANGED << config, quiet, args, exc, exit_code, shutdown_requested,
                    local_vars, mqtt_vars, publish_args, publish_returned,
                    tick_start, slept, readings,
                    reason_codes, legacy >>

\* "state_changed, confirmed_state = state_tracker.update(result.is_cloudy)"
Update ==
    /\ pc = "update"
    /\ tick_trace' = Append(tick_trace, "update")
    /\ LET r == update(state_tracker, result[1].is_cloudy)
       IN  /\ state_tracker' = r.self
           /\ state_changed' = r.state_changed
           /\ confirmed_state' = Some(r.confirmed_state)
    /\ pc' = "print"
    /\ UNCHANGED << config, quiet, args, exc, exit_code, shutdown_requested,
                    local_vars, mqtt_vars, publish_args, publish_returned, tick_start, slept, readings,
                    reason_codes, legacy >>

\* "if not quiet: print_result(result, sun_altitude)"
PrintResult ==
    /\ pc = "print"
    /\ \/ /\ tick_trace' = IF quiet THEN tick_trace ELSE Append(tick_trace, "print")
          /\ pc' = "publish" /\ UNCHANGED exc
       \/ /\ ~quiet
          /\ tick_trace' = Append(tick_trace, "print failed")
          /\ RaiseInTick("OSError")
    /\ UNCHANGED << config, quiet, args, exit_code, shutdown_requested, tracker_vars,
                    local_vars, mqtt_vars, publish_args, publish_returned, tick_start, slept, readings,
                    reason_codes, legacy >>

\* mutant: the reading is published only when the confirmed state changed
Publish_onChangeOnly ==
    /\ pc = "publish"
    /\ IF mqtt_publisher /\ state_changed
       THEN /\ \E returned \in BOOLEAN :
                 /\ publish(result[1], sun_altitude, returned)
                 /\ publish_returned' = Append(publish_returned, returned)
            /\ tick_trace' = Append(tick_trace, "publish")
            /\ publish_args' = Append(publish_args,
                                      [ result |-> result[1], sun_altitude |-> sun_altitude ])
       ELSE UNCHANGED << transport, handed, tick_trace, publish_args,
                         publish_returned >>
    /\ pc' = "wait"
    /\ UNCHANGED << config, quiet, args, exc, exit_code, shutdown_requested,
                    tracker_vars, local_vars, mqtt_publisher, client, connected,
                    cb_pc, tick_start, slept, readings,
                    reason_codes, legacy >>

\* mutant: a publish that was not delivered ends the loop
Publish_failureStopsLoop ==
    /\ pc = "publish"
    /\ IF mqtt_publisher
       THEN /\ \E returned \in BOOLEAN :
                 /\ publish(result[1], sun_altitude, returned)
                 /\ publish_returned' = Append(publish_returned, returned)
                 /\ pc' = IF returned THEN "wait" ELSE "stopped"
            /\ tick_trace' = Append(tick_trace, "publish")
            /\ publish_args' = Append(publish_args,
                                      [ result |-> result[1], sun_altitude |-> sun_altitude ])
       ELSE /\ pc' = "wait"
            /\ UNCHANGED << transport, handed, tick_trace, publish_args,
                         publish_returned >>
    /\ UNCHANGED << config, quiet, args, exc, exit_code, shutdown_requested,
                    tracker_vars, local_vars, mqtt_publisher, client, connected,
                    cb_pc, tick_start, slept, readings,
                    reason_codes, legacy >>

\* "if mqtt_publisher: mqtt_publisher.publish(result, sun_altitude)"
Publish ==
    /\ pc = "publish"
    /\ IF mqtt_publisher
       THEN /\ \E returned \in BOOLEAN :
                 /\ publish(result[1], sun_altitude, returned)
                 /\ publish_returned' = Append(publish_returned, returned)
            /\ tick_trace' = Append(tick_trace, "publish")
            /\ publish_args' = Append(publish_args,
                                      [ result |-> result[1], sun_altitude |-> sun_altitude ])
       ELSE UNCHANGED << transport, handed, tick_trace, publish_args,
                         publish_returned >>
    /\ pc' = "wait"
    /\ UNCHANGED << config, quiet, args, exc, exit_code, shutdown_requested,
                    tracker_vars, local_vars, mqtt_publisher, client, connected,
                    cb_pc, tick_start, slept, readings,
                    reason_codes, legacy >>

\* mutant: the handler starts the tracker afresh
Handler_resetsTracker ==
    /\ pc \in { "except_fnf", "except_any" }
    /\ exc' = None
    /\ pc' = "wait"
    /\ state_tracker' = StateTracker(config.pending_count)
    /\ UNCHANGED << config, quiet, args, exit_code, shutdown_requested, state_changed,
                    confirmed_state, local_vars, mqtt_vars, hist_vars, readings,
                    reason_codes, legacy >>

\* mutant: the handler goes straight back to the loop head
Handler_retriesAtOnce ==
    /\ pc \in { "except_fnf", "except_any" }
    /\ exc' = None
    /\ pc' = "loop"
    /\ UNCHANGED << config, quiet, args, exit_code, shutdown_requested, tracker_vars,
                    local_vars, mqtt_vars, hist_vars, readings,
                    reason_codes, legacy >>

\* "except FileNotFoundError as e:" and "except Exception as e:": logged
Handler ==
    /\ pc \in { "except_fnf", "except_any" }
    /\ exc' = None
    /\ pc' = "wait"
    /\ UNCHANGED << config, quiet, args, exit_code, shutdown_requested, tracker_vars,
                    local_vars, mqtt_vars, hist_vars, readings,
                    reason_codes, legacy >>

\* "wait_time = config.service.interval". The tick is over: its history is
\* dropped, and so are the locals of the try block, which the next tick
\* assigns before it reads them.
Wait ==
    /\ pc = "wait"
    /\ wait_time' = config.interval
    /\ pc' = "sleep_test"
    /\ tick_trace' = <<>> /\ publish_args' = <<>> /\ tick_start' = None
    /\ slept' = Some(0)
    /\ publish_returned' = <<>>
    /\ handed' = [handed EXCEPT !["control"] = <<>>]
    /\ sun_altitude' = None /\ is_daytime' = FALSE /\ result' = None
    /\ state_changed' = FALSE /\ confirmed_state' = None
    /\ UNCHANGED << config, quiet, args, exc, exit_code, shutdown_requested,
                    state_tracker, mqtt_publisher, client, connected, cb_pc,
                    transport, readings,
                    reason_codes, legacy >>

\* mutant: the wait sleeps the interval out, whatever the flag
SleepTest_ignoresShutdown ==
    /\ pc = "sleep_test"
    /\ pc' = IF wait_time > 0 THEN "sleeping" ELSE "loop"
    /\ UNCHANGED << config, quiet, args, exc, exit_code, shutdown_requested,
                    tracker_vars, local_vars, mqtt_vars, hist_vars, readings,
                    reason_codes, legacy >>

\* "while wait_time > 0 and not _shutdown_requested:"
SleepTest ==
    /\ pc = "sleep_test"
    /\ pc' = IF wait_time > 0 /\ ~shutdown_requested THEN "sleeping" ELSE "loop"
    /\ UNCHANGED << config, quiet, args, exc, exit_code, shutdown_requested,
                    tracker_vars, local_vars, mqtt_vars, hist_vars, readings,
                    reason_codes, legacy >>

Min(a, b) == IF a <= b THEN a ELSE b

\* mutant: "time.sleep(1.0)", every slice is a whole second
Sleep_wholeSlice ==
    /\ pc = "sleeping"
    /\ wait_time' = wait_time - SleepSlice
    /\ slept' = Some(slept[1] + SleepSlice)
    /\ pc' = "sleep_test"
    /\ UNCHANGED << config, quiet, args, exc, exit_code, shutdown_requested,
                    tracker_vars, sun_altitude, is_daytime, result, mqtt_vars,
                    tick_trace, publish_args, publish_returned, tick_start,
                    readings,
                    reason_codes, legacy >>

\* "sleep_time = min(wait_time, 1.0); time.sleep(sleep_time);
\*  wait_time -= sleep_time"
Sleep ==
    /\ pc = "sleeping"
    /\ wait_time' = wait_time - Min(wait_time, SleepSlice)
    /\ slept' = Some(slept[1] + Min(wait_time, SleepSlice))
    /\ pc' = "sleep_test"
    /\ UNCHANGED << config, quiet, args, exc, exit_code, shutdown_requested,
                    tracker_vars, sun_altitude, is_daytime, result, mqtt_vars,
                    tick_trace, publish_args, publish_returned, tick_start,
                    readings,
                    reason_codes, legacy >>

\* after the loop: the stop message, then "return 0"
ServiceStop ==
    /\ pc = "stopped"
    /\ \/ pc' = "finally" /\ exit_code' = Some(0) /\ UNCHANGED exc
       \/ ~quiet /\ pc' = "main_except" /\ exc' = Some("OSError") /\ UNCHANGED exit_code
    /\ UNCHANGED << config, quiet, args, shutdown_requested, tracker_vars, local_vars,
                    mqtt_vars, hist_vars, readings,
                    reason_codes, legacy >>

(* ------------------------------ run_single --------------------------- *)
\* the sun check of run_single: with a configured location the altitude is
\* computed (which may raise); daytime without an explicit image returns
SingleGate ==
    /\ pc = "single"
    /\ tick_trace' = Append(tick_trace, "gate")
    /\ IF LocationConfigured(config.latitude, config.longitude)
       THEN \/ \E a \in Altitudes :
                 /\ sun_altitude' = Some(a)
                 /\ pc' = IF IsDaytime(a, DaytimeThreshold) /\ ~Truthy(args.image)
                          THEN "single_skip" ELSE "single_detect"
                 /\ UNCHANGED exc
            \/ /\ sun_altitude' = None
               /\ pc' = "main_except" /\ exc' = Some("Exception")
       ELSE /\ sun_altitude' = None
            /\ pc' = "single_detect"
            /\ UNCHANGED exc
    /\ UNCHANGED << config, quiet, args, exit_code, shutdown_requested, tracker_vars,
                    is_daytime, result, wait_time, mqtt_vars, publish_args,
                    publish_returned, tick_start, slept, readings,
                    reason_codes, legacy >>

\* mutant: after the daytime notice the detection runs all the same
SingleSkip_detectsAnyway ==
    /\ pc = "single_skip"
    /\ tick_trace' = Append(tick_trace, "skip")
    /\ \/ pc' = "single_detect" /\ UNCHANGED << exc, exit_code >>
       \/ pc' = "main_except" /\ exc' = Some("OSError") /\ UNCHANGED exit_code
    /\ UNCHANGED << config, quiet, args, shutdown_requested, tracker_vars, local_vars,
                    mqtt_vars, publish_args, publish_returned, tick_start,
                    slept, readings,
                    reason_codes, legacy >>

\* the daytime notice, printed whatever quiet is, then "return 0"
SingleSkip ==
    /\ pc = "single_skip"
    /\ tick_trace' = Append(tick_trace, "skip")
    /\ \/ pc' = "finally" /\ exit_code' = Some(0) /\ UNCHANGED exc
       \/ pc' = "main_except" /\ exc' = Some("OSError") /\ UNCHANGED exit_code
    /\ UNCHANGED << config, quiet, args, shutdown_requested, tracker_vars, local_vars,
                    mqtt_vars, publish_args, publish_returned, tick_start,
                    slept, readings,
                    reason_codes, legacy >>

\* the image run_detection classifies
DetectionPath(image_path) ==
    IF Truthy(image_path) THEN image_path[1] ELSE LatestImage

\* exceptions run_detection raises: from the detector's construction, from
\* the image source when no image is given, from the classification
DetectionErrors(image_path) ==
    { "FileNotFoundError", "Exception" } \cup DetectErrors
      \cup (IF Truthy(image_path) THEN {} ELSE FetchErrors)

\* "result = run_detection(config, image_path)"
SingleDetect ==
    /\ pc = "single_detect"
    /\ \/ /\ tick_trace' = Append(tick_trace, "detect")
          /\ \E c \in ClassNames :
               result' = Some(DetectionResult(c, DetectionPath(args.image)))
          /\ pc' = "single_print" /\ UNCHANGED exc
       \/ /\ tick_trace' = Append(tick_trace, "detect failed")
          /\ \E e \in DetectionErrors(args.image) :
               pc' = "main_except" /\ exc' = Some(e)
          /\ UNCHANGED result
    /\ UNCHANGED << config, quiet, args, exit_code, shutdown_requested, tracker_vars,
                    sun_altitude, is_daytime, wait_time, mqtt_vars, publish_args,
                    publish_returned, tick_start, slept, readings,
                    reason_codes, legacy >>

\* "if not quiet:" the result block
SinglePrint ==
    /\ pc = "single_print"
    /\ \/ /\ tick_trace' = IF quiet THEN tick_trace ELSE Append(tick_trace, "print")
          /\ pc' = "single_publish" /\ UNCHANGED exc
       \/ /\ ~quiet
          /\ tick_trace' = Append(tick_trace, "print failed")
          /\ pc' = "main_except" /\ exc' = Some("OSError")
    /\ UNCHANGED << config, quiet, args, exit_code, shutdown_requested, tracker_vars,
                    local_vars, mqtt_vars, publish_args, publish_returned,
                    tick_start, slept, readings,
                    reason_codes, legacy >>

\* "if mqtt_publisher: mqtt_publisher.publish(result, sun_altitude)", then
\* "return 0"
SinglePublish ==
    /\ pc = "single_publish"
    /\ IF mqtt_publisher
       THEN /\ \E returned \in BOOLEAN :
                 /\ publish(result[1], sun_altitude, returned)
                 /\ publish_returned' = Append(publish_returned, returned)
            /\ tick_trace' = Append(tick_trace, "publish")
            /\ publish_args' = Append(publish_args,
                                      [ result |-> result[1], sun_altitude |-> sun_altitude ])
       ELSE UNCHANGED << transport, handed, tick_trace, publish_args,
                         publish_returned >>
    /\ exit_code' = Some(0)
    /\ pc' = "finally"
    /\ UNCHANGED << config, quiet, args, exc, shutdown_requested, tracker_vars,
                    local_vars, mqtt_publisher, client, connected, cb_pc,
                    tick_start, slept, readings,
                    reason_codes, legacy >>

(* --------------------------- specifications --------------------------- *)
NoTransport == [ t \in Topics |-> None ]
NothingHanded == [ control |-> <<>>, callback |-> <<>> ]

\* the process when main is entered, for any command line and configuration
\* file (interval and pending_count, which only run_service reads, are fixed
\* where the single-shot mode is selected; the empty image path is run
\* without telemetry and with the short intervals)
Init ==
    /\ config \in Configs
    /\ quiet \in BOOLEAN
    /\ args \in Args
    /\ SingleMode(args, config) => (config.interval = 0 /\ config.pending_count = 1)
    /\ args.image = Some("") => (~config.mqtt_enabled /\ config.interval <= 1)
    /\ pc = "main"
    /\ exc = None
    /\ exit_code = None
    /\ shutdown_requested = FALSE
    /\ state_tracker = None
    /\ state_changed = FALSE
    /\ confirmed_state = None
    /\ sun_altitude = None
    /\ is_daytime = FALSE
    /\ result = None
    /\ wait_time = 0
    /\ mqtt_publisher = FALSE
    /\ client = "None"
    /\ connected = FALSE
    /\ cb_pc = "idle"
    /\ transport = NoTransport
    /\ handed = NothingHanded
    /\ tick_trace = <<>>
    /\ publish_args = <<>>
    /\ publish_returned = <<>>
    /\ tick_start = None
    /\ slept = None
    /\ reason_codes = <<>>
    /\ legacy = None
    /\ readings = <<>>

Next ==
    \/ MainLoadConfig \/ MainMqttInit \/ MainExcept \/ MainFinally \/ disconnect
    \/ ServiceStart \/ LoopHead \/ Gate \/ Skip \/ Fetch \/ Detect \/ Update
    \/ PrintResult \/ Publish \/ Handler \/ Wait \/ SleepTest \/ Sleep
    \/ ServiceStop
    \/ SingleGate \/ SingleSkip \/ SingleDetect \/ SinglePrint \/ SinglePublish
    \/ Signal
    \/ OnConnectSuccess \/ OnConnectFailure \/ OnDisconnect
    \/ \E i \in 1 .. 3 : PublishDiscovery(i)

Spec == Init /\ [][Next]_vars

\* the steps of the control thread (main and what it calls)
ControlThread ==
    \/ MainLoadConfig \/ MainMqttInit \/ MainExcept \/ MainFinally \/ disconnect
    \/ ServiceStart \/ LoopHead \/ Gate \/ Skip \/ Fetch \/ Detect \/ Update
    \/ PrintResult \/ Publish \/ Handler \/ Wait \/ SleepTest \/ Sleep
    \/ ServiceStop
    \/ SingleGate \/ SingleSkip \/ SingleDetect \/ SinglePrint \/ SinglePublish

\* the steps of the transport's callback thread that finish a callback
\* already begun
CallbackThread == \E i \in 1 .. 3 : PublishDiscovery(i)

\* The process with both threads scheduled: every call the control thread
\* makes returns (time.sleep, the collaborators), and a callback that has
\* begun runs to its end.
FairSpec == Spec /\ WF_vars(ControlThread) /\ WF_vars(CallbackThread)

(* --------------------- the tracker on its own ------------------------- *)
\* A StateTracker of any configured pending_count, fed any sequence of
\* boolean readings.
TrackerInit ==
    /\ \E n \in PendingCounts : state_tracker = StateTracker(n)
    /\ state_changed = FALSE
    /\ confirmed_state = None
    /\ readings = <<>>
    /\ config = None /\ quiet = TRUE /\ pc = "tracker" /\ exc = None
    /\ exit_code = None /\ shutdown_requested = FALSE
    /\ sun_altitude = None /\ is_daytime = FALSE /\ result = None
    /\ wait_time = 0 /\ mqtt_publisher = FALSE /\ client = "None"
    /\ connected = FALSE /\ cb_pc = "idle" /\ transport = NoTransport
    /\ handed = NothingHanded
    /\ tick_trace = <<>> /\ publish_args = <<>> /\ tick_start = None
    /\ slept = None /\ reason_codes = <<>> /\ legacy = None
    /\ publish_returned = <<>> /\ args = None

TrackerUpdate ==
    /\ Len(readings) < MaxReadings
    /\ \E is_cloudy \in BOOLEAN :
         LET r == update(state_tracker, is_cloudy)
         IN  /\ state_tracker' = r.self
             /\ state_changed' = r.state_changed
             /\ confirmed_state' = Some(r.confirmed_state)
             /\ readings' = Append(readings, is_cloudy)
    /\ UNCHANGED << config, quiet, args, pc, exc, exit_code, shutdown_requested,
                    local_vars, mqtt_vars, hist_vars, reason_codes, legacy >>

TrackerNext == TrackerUpdate

TrackerSpec == TrackerInit /\ [][TrackerNext]_vars

(* -------------------- the publisher on its own ------------------------ *)
\* most connect callbacks delivered in one run
MaxCallbacks == 4

\* An MqttPublisher whose connect() has started the network loop, the
\* control thread making no call: the transport delivers connect callbacks
\* with any reason codes, and disconnect callbacks, in any order.
CallbackInit ==
    /\ config \in { c \in Configs : c.mqtt_enabled /\ c.interval = 0
                                     /\ c.pending_count = 1 }
    /\ quiet = TRUE /\ args = None /\ pc = "callbacks" /\ exc = None
    /\ exit_code = None /\ shutdown_requested = FALSE
    /\ state_tracker = None /\ state_changed = FALSE /\ confirmed_state = None
    /\ sun_altitude = None /\ is_daytime = FALSE /\ result = None
    /\ wait_time = 0
    /\ mqtt_publisher = TRUE /\ client = "looping"
    /\ connected = FALSE /\ cb_pc = "idle" /\ transport = NoTransport
    /\ handed = NothingHanded
    /\ tick_trace = <<>> /\ publish_args = <<>> /\ tick_start = None
    /\ publish_returned = <<>> /\ slept = None
    /\ reason_codes = <<>> /\ readings = <<>> /\ legacy = None

\* the transport calls _on_connect(reason_code)
ConnectCallback ==
    /\ Len(reason_codes) < MaxCallbacks
    /\ client = "looping" /\ cb_pc = "idle"
    /\ \E reason_code \in ReasonCodes :
         /\ on_connect(reason_code)
         /\ reason_codes' = Append(reason_codes, reason_code)
    /\ UNCHANGED << config, quiet, args, pc, exc, exit_code, shutdown_requested,
                    tracker_vars, local_vars, mqtt_publisher, client, transport,
                    hist_vars, readings, legacy >>

CallbackNext ==
    \/ ConnectCallback
    \/ \E i \in 1 .. 3 : PublishDiscovery(i)
    \/ OnDisconnect

CallbackSpec == CallbackInit /\ [][CallbackNext]_vars

(* ------------------- mlCloudDetect.py, the legacy loop ---------------- *)
\* the messages and the sun altitude of full night, as mcpConfig sets them
CLOUDMSG == "Roof Closed"
CLEARMSG == "Roof Open"
CLOUDPENDINGMSG == "Close Pending"
CLEARPENDINGMSG == "Open Pending"
DAYTIME == -12

\* mutant: a cloudy reading short of PENDING leaves clearCount alone
LegacyCount_keepsOther(l, is_cloudy) ==
    IF is_cloudy
    THEN LET count == l.cloudCount + 1
         IN  IF count >= l.PENDING
             THEN [l EXCEPT !.cloudCount = count, !.roofStatus = CLOUDMSG,
                            !.clearCount = 0]
             ELSE IF l.roofStatus # CLOUDMSG
             THEN [l EXCEPT !.cloudCount = count, !.roofStatus = CLOUDPENDINGMSG]
             ELSE [l EXCEPT !.cloudCount = count]
    ELSE LET count == l.clearCount + 1
         IN  IF count >= l.PENDING
             THEN [l EXCEPT !.clearCount = count, !.roofStatus = CLEARMSG,
                            !.cloudCount = 0]
             ELSE IF l.roofStatus # CLEARMSG
             THEN [l EXCEPT !.clearCount = count, !.roofStatus = CLEARPENDINGMSG,
                            !.cloudCount = 0]
             ELSE [l EXCEPT !.clearCount = count]

\* "if (result): cloudCount += 1 ... else: clearCount += 1 ...", result
\* being what isCloudy returned
LegacyCount(l, is_cloudy) ==
    IF is_cloudy
    THEN LET count == l.cloudCount + 1
         IN  IF count >= l.PENDING
             THEN [l EXCEPT !.cloudCount = count, !.roofStatus = CLOUDMSG,
                            !.clearCount = 0]
             ELSE IF l.roofStatus # CLOUDMSG
             THEN [l EXCEPT !.cloudCount = count, !.roofStatus = CLOUDPENDINGMSG,
                            !.clearCount = 0]
             ELSE [l EXCEPT !.cloudCount = count]
    ELSE LET count == l.clearCount + 1
         IN  IF count >= l.PENDING
             THEN [l EXCEPT !.clearCount = count, !.roofStatus = CLEARMSG,
                            !.cloudCount = 0]
             ELSE IF l.roofStatus # CLEARMSG
             THEN [l EXCEPT !.clearCount = count, !.roofStatus = CLEARPENDINGMSG,
                            !.cloudCount = 0]
             ELSE [l EXCEPT !.clearCount = count]

\* the script up to its loop, for a PENDING of at least 1 that the
\* configuration file keeps, with MQTT enabled or not
LegacyInit ==
    /\ \E n \in 1 .. MaxPendingCount, enabled \in BOOLEAN :
         legacy = [ PENDING      |-> n,
                    cloudCount   |-> 0,
                    clearCount   |-> 0,
                    roofStatus   |-> "UNKNOWN",
                    statusFile   |-> None,
                    mqtt_enabled |-> enabled,
                    published    |-> None ]
    /\ config = None /\ quiet = FALSE /\ args = None /\ pc = "legacy_loop"
    /\ exc = None /\ exit_code = None /\ shutdown_requested = FALSE
    /\ state_tracker = None /\ state_changed = FALSE /\ confirmed_state = None
    /\ sun_altitude = None /\ is_daytime = FALSE /\ result = None
    /\ wait_time = 0 /\ mqtt_publisher = FALSE /\ client = "None"
    /\ connected = FALSE /\ cb_pc = "idle" /\ transport = NoTransport
    /\ handed = NothingHanded
    /\ tick_trace = <<>> /\ publish_args = <<>> /\ tick_start = None
    /\ publish_returned = <<>> /\ slept = None
    /\ reason_codes = <<>> /\ readings = <<>>

\* the sun is up: "Daytime" is written to the status file, the counters and
\* roofStatus are left alone
LegacyDaytime ==
    /\ pc = "legacy_loop"
    /\ \E a \in Altitudes :
         /\ a > DAYTIME
         /\ sun_altitude' = Some(a)
    /\ legacy' = [legacy EXCEPT !.statusFile = Some("Daytime")]
    /\ UNCHANGED << config, quiet, args, pc, exc, exit_code, shutdown_requested,
                    tracker_vars, is_daytime, result, wait_time, mqtt_vars,
                    hist_vars, reason_codes, readings >>

\* a tick at night: isCloudy, the counters and roofStatus, the status file,
\* publish_cloud_status (which skips when MQTT is off or not connected)
LegacyTick ==
    /\ pc = "legacy_loop"
    /\ Len(readings) < MaxReadings
    /\ \E a \in Altitudes :
         /\ ~(a > DAYTIME)
         /\ sun_altitude' = Some(a)
    /\ \E is_cloudy \in BOOLEAN, delivered \in BOOLEAN :
         LET counted == LegacyCount(legacy, is_cloudy)
         IN  /\ delivered => legacy.mqtt_enabled
             /\ legacy' = [counted EXCEPT
                             !.statusFile = Some(counted.roofStatus),
                             !.published  = IF delivered
                                            THEN Some(<< is_cloudy, counted.roofStatus >>)
                                            ELSE @]
             /\ readings' = Append(readings, is_cloudy)
    /\ UNCHANGED << config, quiet, args, pc, exc, exit_code, shutdown_requested,
                    tracker_vars, is_daytime, result, wait_time, mqtt_vars,
                    hist_vars, reason_codes >>

\* KeyboardInterrupt or any exception ends the loop
LegacyStop ==
    /\ pc = "legacy_loop"
    /\ pc' = "legacy_exit"
    /\ UNCHANGED << config, quiet, args, exc, exit_code, shutdown_requested,
                    tracker_vars, local_vars, mqtt_vars, hist_vars, reason_codes,
                    readings, legacy >>

LegacyNext == LegacyDaytime \/ LegacyTick \/ LegacyStop

LegacySpec == LegacyInit /\ [][LegacyNext]_vars

(* ======================= claims: StateTracker ========================= *)
Last(s) == s[Len(s)]

\* the last n entries of s exist and all equal v
AllLast(s, n, v) ==
    /\ Len(s) >= n
    /\ \A i \in (Len(s) - n + 1) .. Len(s) : s[i] = v

\* a step of the tracker harness that is a call of update
IsUpdateStep == readings' # readings

\* C1: current_state changes, and state_changed is True, only on an update
\* where current_state was None or the reading matched the pending candidate
\* and the incremented consecutive_count reached pending_count; on every
\* other update current_state is unchanged and state_changed is False.
C1_ChangeOnlyWhenConfirmed ==
    [][ IsUpdateStep =>
          LET self    == state_tracker
              reading == Last(readings')
              may     == \/ self.current_state = None
                         \/ /\ self.pending_state = Some(reading)
                            /\ self.consecutive_count + 1 >= self.pending_count
          IN  /\ state_changed' <=> (state_tracker'.current_state # self.current_state)
              /\ state_changed' => may
              /\ ~may => /\ state_tracker'.current_state = self.current_state
                         /\ ~state_changed' ]_vars

\* C1 witness: a transition confirmed by the count threshold, after an
\* intermediate pending reading that changed nothing.
C1_Witness ==
    /\ state_tracker.pending_count = 2
    /\ readings = << FALSE, TRUE, TRUE >>
    /\ state_changed
    /\ state_tracker.current_state = Some(TRUE)

C2_Example == << FALSE, TRUE, TRUE, FALSE, TRUE, TRUE, TRUE >>

\* C2 (the spec's example): confirmed Clear, pending_count 3, readings
\* Cloudy, Cloudy, Clear, Cloudy, Cloudy, Cloudy: Clear through reading 5,
\* Cloudy on reading 6 (the first entry of C2_Example seeds Clear).
C2_ExampleHolds ==
    state_tracker.pending_count = 3 =>
      /\ ( /\ Len(readings) \in 1 .. (Len(C2_Example) - 1)
           /\ readings = SubSeq(C2_Example, 1, Len(readings)) )
         => state_tracker.current_state = Some(FALSE)
      /\ readings = C2_Example
         => /\ state_tracker.current_state = Some(TRUE)
            /\ state_changed

\* C2 (general): with pending_count N >= 2 and confirmed state c, an update
\* flips the confirmed state to not-c exactly when the reading completes N
\* consecutive readings of not-c (the last N readings are all not-c).
C2_FlipsExactlyOnNth ==
    IsUpdateStep =>
      LET N == state_tracker.pending_count
          c == state_tracker.current_state
      IN  (N >= 2 /\ c # None) =>
            IF AllLast(readings', N, ~c[1])
            THEN /\ state_tracker'.current_state = Some(~c[1])
                 /\ state_changed'
            ELSE /\ state_tracker'.current_state = c
                 /\ ~state_changed'

\* C2: pending_count N >= 2: the confirmed state flips exactly on the reading
\* that completes N consecutive contrary readings; a reading equal to the
\* confirmed state in between makes the run start again.
C2_DebouncedFlip == []C2_ExampleHolds /\ [][C2_FlipsExactlyOnNth]_vars

\* C2 witness: the example run to its sixth reading.
C2_Witness ==
    /\ state_tracker.pending_count = 3
    /\ readings = C2_Example
    /\ state_tracker.current_state = Some(TRUE)

\* C3: whenever pending_state is set, current_state is not None and
\* pending_state is the negation of current_state.
C3_PendingIsNegation ==
    state_tracker.pending_state # None =>
      /\ state_tracker.current_state # None
      /\ state_tracker.pending_state = Some(~state_tracker.current_state[1])

\* C3 witness: a pending transition that has been advanced once.
C3_Witness ==
    /\ state_tracker.pending_state # None
    /\ state_tracker.consecutive_count = 2

\* C4: with current_state None, update adopts the reading as confirmed at
\* once for every pending_count, leaves no pending transition and returns
\* state_changed = True.
C4_FirstReadingAdopted ==
    [][ (IsUpdateStep /\ state_tracker.current_state = None) =>
          /\ state_tracker'.current_state = Some(Last(readings'))
          /\ state_tracker'.pending_state = None
          /\ state_tracker'.consecutive_count = 0
          /\ state_changed'
          /\ confirmed_state' = Some(Last(readings')) ]_vars

\* C4 witness: the first reading, Cloudy, taken by a tracker that debounces.
C4_Witness ==
    /\ readings = << TRUE >>
    /\ state_tracker.pending_count = MaxPendingCount
    /\ state_tracker.current_state = Some(TRUE)
    /\ state_changed

\* C5: an update whose reading equals the confirmed state clears any pending
\* transition, leaves current_state unchanged and returns state_changed =
\* False, whatever the count was.
C5_AgreementCancels ==
    [][ (IsUpdateStep /\ state_tracker.current_state = Some(Last(readings'))) =>
          /\ state_tracker'.pending_state = None
          /\ state_tracker'.consecutive_count = 0
          /\ state_tracker'.current_state = state_tracker.current_state
          /\ ~state_changed' ]_vars

\* C5 witness: a pending transition of count 2 cancelled by an agreeing
\* reading.
C5_Witness ==
    /\ state_tracker.pending_count = 3
    /\ readings = << FALSE, TRUE, TRUE, FALSE >>
    /\ state_tracker.pending_state = None
    /\ state_tracker.consecutive_count = 0
    /\ ~state_changed

\* C6 (as claimed): with pending_count <= 1, one reading that disagrees with
\* the known confirmed state is confirmed by that same update call.
C6_ImmediateConfirmation ==
    [][ ( /\ IsUpdateStep
          /\ state_tracker.pending_count <= 1
          /\ state_tracker.current_state # None
          /\ state_tracker.current_state # Some(Last(readings')) ) =>
          /\ state_tracker'.current_state = Some(Last(readings'))
          /\ state_changed'
          /\ state_tracker'.pending_state = None ]_vars

(* ======================== claims: run_service ========================= *)
Range(s) == { s[i] : i \in 1 .. Len(s) }

\* C7 (as claimed): the state shown by telemetry (the state / is_cloudy
\* fields of the payload on the state topic) flips only on a tick where
\* update reported a confirmed transition. (Stated for pending_count >= 2,
\* where a pending-only tick exists by design.)
C7_TelemetryFlipsOnlyWhenConfirmed ==
    [][ LET old == transport[StateTopic]
            new == transport'[StateTopic]
        IN  ( /\ config.pending_count >= 2
              /\ old # None
              /\ new # None
              /\ new[1].payload.is_cloudy # old[1].payload.is_cloudy )
            => state_changed ]_vars

C9_FailedTickChangesNothing ==
    /\ [] ( ( /\ pc \in HandlerPcs \cup { "wait" }
              /\ Range(tick_trace) \cap { "fetch failed", "detect failed" } # {} ) =>
              /\ state_tracker = tick_start
              /\ publish_args = <<>> )
    /\ [][ (pc \in HandlerPcs \cup WaitPcs) => (state_tracker' = state_tracker) ]_vars

\* C9 witness: a pending transition that survived a failed classification.
C9_Witness ==
    /\ pc = "wait"
    /\ "detect failed" \in Range(tick_trace)
    /\ state_tracker.pending_state # None
    /\ state_tracker.consecutive_count = 1

\* C10: an exception raised by a step of a tick is caught in that tick: the
\* control thread goes to a handler, from there to the inter-tick wait and
\* from the wait back to the loop head, which starts the next tick unless
\* shutdown was requested; the loop is left only at the loop head with
\* shutdown requested, never by an exception, and then with exit code 0 in
\* reach.
C10_TickExceptionsContained ==
    [][ /\ (pc \in TickPcs /\ exc' # None) => pc' \in HandlerPcs
        /\ (pc \in HandlerPcs /\ pc' # pc) => (pc' = "wait" /\ exc' = None)
        /\ (pc = "wait" /\ pc' # pc) => pc' = "sleep_test"
        /\ (pc = "sleep_test" /\ pc' # pc) => pc' \in { "sleeping", "loop" }
        /\ (pc = "sleeping" /\ pc' # pc) => pc' = "sleep_test"
        /\ (pc = "loop" /\ pc' # pc /\ ~shutdown_requested) => pc' = "gate"
        /\ (pc \in LoopPcs /\ pc' \notin LoopPcs) =>
             (pc = "loop" /\ shutdown_requested /\ pc' = "stopped")
        /\ (pc \in LoopPcs) => exit_code' = None ]_vars

\* C10 witness: the wait reached after console output raised in a tick.
C10_Witness ==
    /\ pc = "wait"
    /\ "print failed" \in Range(tick_trace)
    /\ exc = None
    /\ exit_code = None

\* C11 (as claimed): in continuous mode no missing path (image, model or
\* database) takes the control thread out of run_service: a
\* FileNotFoundError never reaches main's handler.
C11_MissingPathNeverFatal ==
    ~( /\ ~SingleMode(args, config)
       /\ pc = "main_except"
       /\ exc = Some("FileNotFoundError") )

\* C11 (amended): in continuous mode a missing image or database path,
\* raised by the fetch or the classification of a tick, is handled in that
\* tick and leads to the inter-tick wait with no exit code set; a missing
\* model path is raised when run_service builds the detector, before the
\* loop, and ends the process with exit code 1.
C11_MissingPathSkipsTickExceptModel ==
    [][ /\ (pc \in TickPcs /\ exc' = Some("FileNotFoundError")) =>
             (pc \in { "fetch", "detect" } /\ pc' = "except_fnf")
        /\ (pc = "except_fnf" /\ pc' # pc) =>
             (pc' = "wait" /\ exc' = None /\ exit_code' = None)
        /\ (pc = "service" /\ exc' = Some("FileNotFoundError")) =>
             pc' = "main_except"
        /\ (pc = "main_except" /\ pc' # pc) =>
             (pc' = "finally" /\ exit_code' = Some(1))
        /\ (pc \in { "finally", "disconnect" } /\ pc' # pc) =>
             (pc' \in { "disconnect", "exit" } /\ exit_code' = exit_code) ]_vars

\* C11 witness: the wait reached after a tick whose image or database was
\* missing.
C11_Witness ==
    /\ pc = "wait"
    /\ "fetch failed" \in Range(tick_trace)
    /\ exc = None
    /\ exit_code = None
    /\ state_tracker.current_state # None

\* C12: once shutdown is requested during the inter-tick wait, the flag
\* stays set; a sleep slice in progress ends after at most SleepSlice (one
\* second) and goes back to the test of the wait loop; that test starts no
\* further slice but leaves the wait, with whatever is left of the interval;
\* and the loop head starts no tick but leaves the loop.
C12_ShutdownCutsWait ==
    [][ (shutdown_requested /\ pc \in WaitPcs \cup { "loop" }) =>
          /\ shutdown_requested'
          /\ (pc = "sleeping" /\ pc' # pc) =>
               /\ pc' = "sleep_test"
               /\ wait_time - wait_time' \in 1 .. SleepSlice
          /\ (pc = "sleep_test" /\ pc' # pc) =>
               (pc' = "loop" /\ wait_time' = wait_time)
          /\ (pc = "loop" /\ pc' # pc) => pc' = "stopped"
          /\ pc' \notin TickPcs ]_vars

\* C12 witness: the loop left with part of the interval still to wait: the
\* signal arrived after the first sleep slice had begun.
C12_Witness ==
    /\ pc = "stopped"
    /\ shutdown_requested
    /\ wait_time > 0
    /\ wait_time < config.interval

\* the tick a signal interrupted ran to its end: the sample was classified
\* and console output did not raise
C13_SignalledTickDone ==
    /\ pc = "wait"
    /\ "signal" \in Range(tick_trace)
    /\ "detect" \in Range(tick_trace)
    /\ "print failed" \notin Range(tick_trace)

\* C13: a signal that arrives while a tick classifies its image moves no
\* step of the tick: the tick's update still runs on the tick's reading and
\* the publisher, when present, is still called once with the tick's result;
\* the signal itself changes nothing but the flag, and with the flag set the
\* wait starts no sleep slice and the loop head starts no tick.
C13_TickNotPreempted ==
    /\ [] ( C13_SignalledTickDone =>
              /\ "update" \in Range(tick_trace)
              /\ state_tracker = update(tick_start, result[1].is_cloudy).self
              /\ ( mqtt_publisher =>
                     publish_args = << [ result |-> result[1],
                                         sun_altitude |-> sun_altitude ] >> ) )
    /\ [][ /\ (shutdown_requested' # shutdown_requested) =>
                /\ pc' = pc
                /\ state_tracker' = state_tracker
                /\ result' = result
                /\ transport' = transport
           /\ (shutdown_requested /\ pc = "sleep_test" /\ pc' # pc) => pc' = "loop"
           /\ (shutdown_requested /\ pc = "loop" /\ pc' # pc) => pc' = "stopped" ]_vars

\* C13 witness: the end of a tick that was signalled during classification,
\* with its update made and its result published.
C13_Witness ==
    /\ C13_SignalledTickDone
    /\ shutdown_requested
    /\ "update" \in Range(tick_trace)
    /\ Len(publish_args) = 1
    /\ state_tracker # tick_start

\* the service's lifecycle: Idle (0) before the loop, Running (1) in the
\* loop with the flag clear, Draining (2) in the loop with the flag set,
\* Stopped (3) once the loop, or the process before it, has ended
Lifecycle ==
    CASE pc \in { "main", "mqtt_init", "service" } -> 0
      [] pc \in LoopPcs /\ ~shutdown_requested     -> 1
      [] pc \in LoopPcs /\ shutdown_requested      -> 2
      [] OTHER                                      -> 3

\* C14 (as claimed): once the loop has been left, run_service returns exit
\* code 0.
C14_StoppedReturnsZero ==
    [][ (pc = "stopped" /\ pc' # pc) =>
          (pc' = "finally" /\ exit_code' = Some(0)) ]_vars

\* what happens next when the loop has been left: run_service returns 0, or
\* printing the stop message raises, which main answers with exit code 1
C14_StopStep ==
    (pc = "stopped" /\ pc' # pc) =>
       \/ pc' = "finally" /\ exit_code' = Some(0)
       \/ ~quiet /\ pc' = "main_except" /\ exc' = Some("OSError")

\* C14 (amended): in continuous mode the lifecycle only moves forward, the
\* flag once set is never cleared, with the flag set no tick is begun, the
\* loop is left only for Stopped, and from Stopped run_service returns 0
\* unless printing the stop message raises (not quiet), which main answers
\* with exit code 1, the code the process then ends with. With both threads
\* scheduled the service does not stay draining, nor short of the end of the
\* process once the loop is left: again and again it is either not yet
\* draining or at its exit, which, the lifecycle moving forward only, makes
\* every drain end at the exit.
C14_LifecycleForward ==
    /\ [][ ~SingleMode(args, config) =>
             /\ Lifecycle' >= Lifecycle
             /\ shutdown_requested => shutdown_requested'
             /\ (shutdown_requested /\ pc # "gate") => pc' # "gate"
             /\ (pc \in LoopPcs /\ pc' \notin LoopPcs) => pc' = "stopped"
             /\ C14_StopStep
             /\ (pc = "main_except" /\ pc' # pc) => exit_code' = Some(1)
             /\ (pc \in { "finally", "disconnect" }) => exit_code' = exit_code ]_vars
    /\ []<>(Lifecycle <= 1 \/ pc = "exit")

\* C14 witness: the process at its end after a drain that began inside the
\* loop, run_service having returned 0.
C14_Witness ==
    /\ ~SingleMode(args, config)
    /\ pc = "exit"
    /\ shutdown_requested
    /\ exit_code = Some(0)
    /\ state_tracker # None
    /\ state_tracker.current_state # None

(* ========================= claims: the sun gate ======================= *)
\* the location is configured and the sun's altitude has been computed
Located == LocationConfigured(config.latitude, config.longitude)

\* C15: with a configured location, the control thread is at the daytime
\* skip (of a tick, or of a single-shot run without an explicit image) only
\* with a computed altitude strictly above daytime_threshold, and goes on to
\* fetch and classify only with an altitude at or below it: an altitude equal
\* to the threshold is not daytime.
C15_GateIsStrict ==
    ( config # None /\ Located ) =>
      /\ pc \in { "skip", "single_skip" } =>
           (sun_altitude # None /\ sun_altitude[1] > DaytimeThreshold)
      /\ pc \in { "fetch", "detect", "update" } =>
           (sun_altitude # None /\ sun_altitude[1] <= DaytimeThreshold)
      /\ (pc \in { "single_detect", "single_print" } /\ args.image = None) =>
           (sun_altitude # None /\ sun_altitude[1] <= DaytimeThreshold)

\* C15 witness: a tick classifying its image with the sun exactly at the
\* threshold.
C15_Witness ==
    /\ pc = "update"
    /\ Located
    /\ sun_altitude = Some(DaytimeThreshold)
    /\ DaytimeThreshold = -12

\* C16: with latitude and longitude both 0 no altitude is computed and
\* neither mode is ever at its daytime skip.
C16_NoGateAtNullIsland ==
    ( config # None /\ config.latitude = 0 /\ config.longitude = 0 ) =>
      /\ pc \notin { "skip", "single_skip" }
      /\ sun_altitude = None
      /\ ~is_daytime
      /\ "skip" \notin Range(tick_trace)

\* C16 witness: a single-shot run without an explicit image that classified
\* with no location configured.
C16_Witness ==
    /\ config.latitude = 0 /\ config.longitude = 0
    /\ pc = "single_print"
    /\ args.image = None
    /\ result # None

\* C17: in a gated tick (is_daytime set by the gate) nothing has been
\* fetched, classified, fed to update or published, and the tracker is the
\* one the tick began with; no step of a gated tick, of a handler, of the wait
\* or of the loop head changes the tracker, so a pending transition lasts
\* through any number of gated ticks.
C17_GatedTickChangesNothing ==
    /\ [] ( is_daytime =>
              /\ Range(tick_trace) \subseteq { "gate", "skip" }
              /\ result = None
              /\ publish_args = <<>>
              /\ state_tracker = tick_start )
    /\ [][ (is_daytime \/ pc \in HandlerPcs \cup WaitPcs \cup { "loop" }) =>
             /\ state_tracker' = state_tracker
             /\ transport'[StateTopic] = transport[StateTopic] ]_vars

\* C17 witness: the end of a gated tick with a transition still pending.
C17_Witness ==
    /\ pc = "wait"
    /\ is_daytime
    /\ "skip" \in Range(tick_trace)
    /\ state_tracker.pending_state # None
    /\ state_tracker.consecutive_count >= 1

(* ======================= claims: tick sequencing ====================== *)
\* the place of a step in a tick
StepOrder(step) ==
    CASE step = "gate"                               -> 1
      [] step \in { "skip", "fetch", "fetch failed" } -> 2
      [] step \in { "detect", "detect failed" }       -> 3
      [] step = "update"                             -> 4
      [] step \in { "print", "print failed" }         -> 5
      [] step = "publish"                            -> 6

\* the steps of the current tick, signals left out
TickSteps == SelectSeq(tick_trace, LAMBDA step : step # "signal")

\* C18: the steps a tick has taken are in the order gate, sample (fetch,
\* classify), update, console output, publish, each at most once, and
\* begin with the gate; a tick begins only from the loop head, and the loop
\* head is reached only from the start of the service or from the wait once
\* the interval has been slept out or shutdown was requested.
C18_TicksSequential ==
    /\ [] ( /\ \A i, j \in 1 .. Len(TickSteps) :
                  i < j => StepOrder(TickSteps[i]) < StepOrder(TickSteps[j])
            /\ TickSteps # <<>> => TickSteps[1] = "gate"
            /\ Len(publish_args) <= 1
            /\ pc = "gate" => (tick_trace = <<>> /\ publish_args = <<>>) )
    /\ [][ /\ (pc' = "gate" /\ pc # "gate") => pc = "loop"
           /\ (pc' = "loop" /\ pc # "loop") =>
                \/ pc = "service"
                \/ pc = "sleep_test" /\ (wait_time = 0 \/ shutdown_requested)
           /\ (pc' = "sleep_test" /\ pc # "sleep_test") =>
                pc \in { "wait", "sleeping" }
           /\ (pc' = "wait" /\ pc # "wait") =>
                pc \in { "publish", "skip" } \cup HandlerPcs ]_vars

\* C18 witness: a second tick that has run through all its steps.
C18_Witness ==
    /\ pc = "wait"
    /\ tick_start # None
    /\ tick_start.current_state # None
    /\ TickSteps = << "gate", "fetch", "detect", "update", "print", "publish" >>

(* ========================= claims: telemetry ========================== *)
\* C19 (as claimed): with telemetry and discovery enabled, whenever a state
\* payload has been handed to the transport, the three discovery documents
\* have been handed to it already.
C19_DiscoveryBeforeState ==
    ( /\ config # None
      /\ config.mqtt_enabled
      /\ config.ha_discovery
      /\ transport[StateTopic] # None ) =>
      \A i \in 1 .. 3 : transport[DiscoveryTopics[i]] # None

\* C20: a publish of continuous mode that returned False (not connected, or
\* the transport raised) leaves the tick where a delivered one does: at the
\* wait, with no exception and no exit code, the tracker being exactly what
\* the tick's update made of the tracker the tick began with; publish never
\* touches the tracker, and the wait that follows is the configured interval.
C20_FailedPublishHarmless ==
    /\ [] ( (pc = "wait" /\ publish_returned = << FALSE >>) =>
              /\ exc = None
              /\ exit_code = None
              /\ LET r == update(tick_start, result[1].is_cloudy)
                 IN  /\ state_tracker = r.self
                     /\ state_changed = r.state_changed
                     /\ confirmed_state = Some(r.confirmed_state) )
    /\ [][ /\ (pc = "publish" /\ pc' # pc) =>
                /\ pc' = "wait"
                /\ exc' = None
                /\ state_tracker' = state_tracker
           /\ (pc = "wait" /\ pc' # pc) =>
                /\ pc' = "sleep_test"
                /\ wait_time' = config.interval
                /\ state_tracker' = state_tracker ]_vars

\* C20 witness: the end of a tick whose update started a pending transition
\* and whose publish was not delivered.
C20_Witness ==
    /\ pc = "wait"
    /\ publish_returned = << FALSE >>
    /\ state_tracker # tick_start
    /\ state_tracker.pending_state # None

(* --------------------------------- C21 -------------------------------- *)
\* a step in which MqttPublisher.publish is called and returns
IsPublishCall == Len(publish_returned') = Len(publish_returned) + 1

\* C21: MqttPublisher.publish returns the delivered flag: called while the
\* publisher is disabled or not connected it returns False and hands nothing
\* to the transport; it returns True only after handing exactly one message,
\* on the configured state topic; it never raises (no exception is pending
\* after the call and control goes on to the statement after it)
C21_PublishReturnsDelivered ==
    [][ IsPublishCall =>
          /\ (~config.mqtt_enabled \/ ~connected) =>
                (/\ ~Last(publish_returned')
                 /\ transport' = transport
                 /\ handed' = handed)
          /\ Last(publish_returned') =>
                (/\ Len(handed'.control) = Len(handed.control) + 1
                 /\ SubSeq(handed'.control, 1, Len(handed.control)) = handed.control
                 /\ Last(handed'.control).topic = StateTopic
                 /\ transport'[StateTopic] = Some(Last(handed'.control).message)
                 /\ \A t \in Topics \ { StateTopic } : transport'[t] = transport[t]
                 /\ handed'.callback = handed.callback)
          /\ exc' = exc /\ exc = None
          /\ pc' = IF pc = "publish" THEN "wait" ELSE "finally"
      ]_vars

\* a publish call has returned True with its one message handed over
C21_Witness ==
    /\ publish_returned = << TRUE >>
    /\ Len(handed.control) = 1
    /\ handed.control[1].topic = StateTopic

(* --------------------------------- C22 -------------------------------- *)
\* the three discovery documents on their topics, in the order of
\* _publish_ha_discovery (the transport is taken to accept every call)
ThreeDocuments ==
    [ i \in 1 .. 3 |-> [ topic   |-> DiscoveryTopics[i],
                         message |-> Message(DiscoveryDocs[i], TRUE) ] ]

\* C22: every invocation of the discovery publication hands exactly the
\* three documents to the transport, on the three discovery topics and with
\* payloads fixed by the configuration: while it runs it has handed the first
\* documents of the three, once it is over it has handed all three and
\* nothing else, and every successful connect callback with ha_discovery runs
\* it again (a later invocation is not suppressed and sends the same three)
C22_DiscoveryHandsThree ==
    /\ \A k \in 1 .. 3 :
          cb_pc = "discovery" \o ToString(k) =>
            handed.callback = SubSeq(ThreeDocuments, 1, k - 1)
    /\ (cb_pc = "idle" /\ config.ha_discovery
            /\ (connected \/ handed.callback # <<>>)) =>
          handed.callback = ThreeDocuments
    /\ ~config.ha_discovery => handed.callback = <<>>
    /\ \A i \in 1 .. 3 :
          transport[DiscoveryTopics[i]] \in { None, Some(ThreeDocuments[i].message) }

\* a later invocation is under way: the third document is at the transport
\* from an earlier invocation and this one has handed the first two again
C22_Witness ==
    /\ cb_pc = "discovery3"
    /\ handed.callback = SubSeq(ThreeDocuments, 1, 2)
    /\ transport[DiscoveryTopics[3]] = Some(ThreeDocuments[3].message)

(* --------------------------------- C23 -------------------------------- *)
\* C23: every message MqttPublisher hands to the transport, state payload
\* or discovery document, is published with retain = True
C23_EveryMessageRetained ==
    /\ \A t \in Topics : transport[t] # None => transport[t][1].retain
    /\ \A i \in 1 .. Len(handed.control) : handed.control[i].message.retain
    /\ \A i \in 1 .. Len(handed.callback) : handed.callback[i].message.retain

\* a state payload and the discovery documents have all been handed over
C23_Witness ==
    /\ \A t \in Topics : transport[t] # None
    /\ handed.control # <<>>
    /\ Len(handed.callback) = 3

(* --------------------------------- C24 -------------------------------- *)
\* where the control thread is inside run_single
SinglePcs ==
    { "single", "single_skip", "single_detect", "single_print", "single_publish" }

\* run_single has been entered
InSingleShot == SingleMode(args, config) /\ tick_trace # <<>>

Count(s, x) == Cardinality({ i \in 1 .. Len(s) : s[i] = x })

IsPrefix(s, t) == Len(s) <= Len(t) /\ SubSeq(t, 1, Len(s)) = s

\* the run_single that neither skips nor raises
FullSingleRun ==
    << "gate", "detect" >> \o (IF quiet THEN <<>> ELSE << "print" >>)
                          \o (IF mqtt_publisher THEN << "publish" >> ELSE <<>>)

\* what run_single does from its entry to its return or raise
SingleRuns ==
    { << "gate" >>, << "gate", "skip" >>, << "gate", "detect failed" >>,
      << "gate", "detect", "print failed" >>, FullSingleRun }

\* C24 (as claimed): every single-shot run that has ended has evaluated the
\* sun gate once, taken one sample and, with telemetry enabled, made one
\* publish, and no StateTracker exists.
C24_ExactlyOneOfEach ==
    (InSingleShot /\ pc = "exit") =>
        /\ Count(tick_trace, "gate") = 1
        /\ Count(tick_trace, "detect") = 1
        /\ config.mqtt_enabled => Len(publish_args) = 1
        /\ state_tracker = None

\* what holds in every state of a single-shot run
C24_SingleShotState ==
    InSingleShot =>
        /\ pc \in SinglePcs \cup { "main_except", "finally", "disconnect", "exit" }
        /\ \E r \in SingleRuns : IsPrefix(tick_trace, r)
        /\ pc \notin SinglePcs => tick_trace \in SingleRuns
        /\ Count(tick_trace, "gate") = 1
        /\ Len(publish_args) <= 1 /\ Len(publish_returned) = Len(publish_args)
        /\ Len(handed.control) <= 1
        /\ (pc \notin SinglePcs /\ tick_trace = FullSingleRun) =>
              (/\ result # None
               /\ mqtt_publisher =>
                     publish_args = << [ result       |-> result[1],
                                         sun_altitude |-> sun_altitude ] >>
               /\ publish_returned = << TRUE >> =>
                     handed.control =
                       << [ topic   |-> StateTopic,
                            message |-> Message(Payload(result[1], sun_altitude), TRUE) ] >>)
        /\ tick_trace = << "gate", "skip" >> =>
              (/\ sun_altitude # None /\ IsDaytime(sun_altitude[1], DaytimeThreshold)
               /\ ~Truthy(args.image) /\ result = None /\ publish_args = <<>>)
        /\ state_tracker = None /\ readings = <<>>
        /\ state_changed = FALSE /\ confirmed_state = None

\* C24 (amended): single-shot mode evaluates the sun gate exactly once and
\* takes at most one sample and makes at most one publish call, then
\* terminates: a run the gate skips (daytime and no image given) samples and
\* publishes nothing; a run in which the sun computation, the detection or
\* the console output raises publishes nothing; every other run takes one
\* sample and, with a publisher, makes one publish call with the raw reading
\* and the computed sun altitude; no StateTracker is ever created or updated,
\* and control always leaves run_single.
C24_SingleShotOnce ==
    /\ [](C24_SingleShotState)
    /\ []<>(pc \notin SinglePcs)

\* a single-shot run that went all the way has ended, its one publish made
C24_Witness ==
    /\ InSingleShot /\ pc = "exit"
    /\ tick_trace = << "gate", "detect", "print", "publish" >>
    /\ publish_returned = << TRUE >>
    /\ exit_code = Some(0)

(* --------------------------------- C25 -------------------------------- *)
\* C25: when -i/--image is given, the single-shot mode is selected whatever
\* service.mode says (run_service is never entered), the detection is never
\* skipped by the sun gate, and the image classified is the given path, not
\* one the camera source names
C25_ImageForcesSingleShot ==
    args.image # None =>
        /\ pc \notin { "service", "stopped" } \cup LoopPcs
        /\ pc # "single_skip"
        /\ result # None => result[1].image_path = args.image[1]

(* --------------------------------- C26 -------------------------------- *)
\* where run_single and run_service execute "return 0"
ReturnPcs == { "single_skip", "single_publish", "stopped" }

\* what main's exit code is in every state
C26_ExitCodeState ==
    /\ exit_code \in { None, Some(0), Some(1) }
    /\ pc \in { "finally", "disconnect", "exit" } <=> exit_code # None
    /\ pc = "main_except" => exc # None
    /\ exc # None => pc \in { "main_except" } \cup HandlerPcs
    /\ (InSingleShot /\ Count(tick_trace, "detect failed") > 0) =>
          (/\ publish_args = <<>> /\ handed.control = <<>>
           /\ transport[StateTopic] = None
           /\ exit_code \in { None, Some(1) })

\* C26: main returns 0 when run_single returns (after its publish or after
\* the daytime skip) or run_service returns (the loop left on a shutdown
\* request), and 1 when an exception escapes to main's handlers, be it from
\* load_config, a file error or any other exception; the code once set is
\* the one the process ends with; a missing image or model in single-shot
\* mode escapes from run_detection before any publish, so the exit code is 1
\* and nothing was published
C26_ExitCodes ==
    /\ [](C26_ExitCodeState)
    /\ [][ /\ (pc \in ReturnPcs /\ pc' # pc /\ exc' = None) =>
                (pc' = "finally" /\ exit_code' = Some(0))
           /\ (pc = "main_except" /\ pc' # pc) =>
                (pc' = "finally" /\ exit_code' = Some(1))
           /\ (exc = None /\ exc' # None /\ pc' \notin HandlerPcs) =>
                pc' = "main_except"
           /\ (pc = "main" /\ pc' # pc /\ pc' # "mqtt_init") => pc' = "main_except"
           /\ exit_code' # exit_code =>
                (exit_code = None /\ pc \in ReturnPcs \cup { "main_except" })
           /\ (pc = "single_detect" /\ pc' # pc /\ result' = None) =>
                (pc' = "main_except" /\ publish_args' = <<>>)
         ]_vars

\* a single-shot run on a given image that could not be classified has ended
\* with exit code 1, a publisher existing and nothing published
C26_Witness ==
    /\ InSingleShot /\ pc = "exit"
    /\ Truthy(args.image)
    /\ tick_trace = << "gate", "detect failed" >>
    /\ mqtt_publisher /\ publish_args = <<>>
    /\ exit_code = Some(1)

(* --------------------------------- C27 -------------------------------- *)
\* the tuples update returns, one after the other, when the tracker self is
\* given the readings rs in order
RECURSIVE Results(_, _)
Results(self, rs) ==
    IF rs = <<>>
    THEN <<>>
    ELSE LET r == update(self, Head(rs))
         IN  << << r.state_changed, r.confirmed_state >> >>
               \o Results(r.self, Tail(rs))

\* C27: for every reading sequence, a StateTracker configured with
\* pending_count zero or negative returns the same sequence of
\* (state_changed, confirmed_state) as one configured with pending_count = 1
\* (the tracker of the run is one of them: what it last returned is the last
\* tuple of that sequence)
C27_NonPositiveLikeOne ==
    /\ \A n \in PendingCounts :
          n <= 0 => Results(StateTracker(n), readings)
                      = Results(StateTracker(1), readings)
    /\ readings # <<>> =>
          << state_changed, confirmed_state[1] >>
            = Last(Results(StateTracker(state_tracker.pending_count), readings))

\* a tracker with a threshold that is not positive has confirmed a change of
\* state after being initialised
C27_Witness ==
    /\ state_tracker.pending_count <= 0
    /\ Len(readings) >= 3
    /\ state_changed

(* --------------------------------- C28 -------------------------------- *)
\* where the control thread deals with the telemetry
TelemetryPcs == { "mqtt_init", "publish", "single_publish", "finally", "disconnect" }

\* where the control thread goes from a telemetry step when there is no
\* publisher at all
LocalOnlySuccessor ==
    CASE pc = "mqtt_init"      -> IF SingleMode(args, config) THEN "single" ELSE "service"
      [] pc = "publish"        -> "wait"
      [] pc = "single_publish" -> "finally"
      [] pc = "finally"        -> "exit"
      [] pc = "disconnect"     -> "exit"

\* connect failed: no client, or a client whose network loop never started
ConnectFailed == mqtt_publisher /\ client \in { "None", "created" }

\* what a failed connect leaves in every later state
C28_NeverConnectedState ==
    ConnectFailed =>
        /\ ~connected /\ cb_pc = "idle"
        /\ transport = NoTransport /\ handed = NothingHanded
        /\ \A i \in 1 .. Len(publish_returned) : ~publish_returned[i]

\* C28: when the telemetry connection is not established (connect failed,
\* or no connect callback has set the flag) the run is local-only: the
\* failed connect raises nothing, every publish call made while not
\* connected returns False and hands nothing over, and the steps of the
\* control thread that deal with telemetry go where they go without a
\* publisher (but for the disconnect at the end) and leave the tracker, the
\* tick's locals, the pending exception and the exit code as they would be
\* without one; a failed connect is never followed by a connect callback
C28_DegradesToLocalOnly ==
    /\ [](C28_NeverConnectedState)
    /\ [][ /\ (pc \in TelemetryPcs /\ pc' # pc) =>
                /\ pc' = LocalOnlySuccessor
                     \/ (pc = "finally" /\ mqtt_publisher /\ pc' = "disconnect")
                /\ exc' = exc
                /\ exit_code' = IF pc = "single_publish" THEN Some(0) ELSE exit_code
                /\ tracker_vars' = tracker_vars
                /\ local_vars' = local_vars
                /\ readings' = readings
                /\ shutdown_requested' = shutdown_requested
           /\ (IsPublishCall /\ ~connected) =>
                /\ ~Last(publish_returned')
                /\ transport' = transport
                /\ handed' = handed
           /\ (ConnectFailed /\ pc # "finally") => ConnectFailed'
         ]_vars

\* the service, its connect having failed, has sampled, updated the tracker
\* and made a publish call that returned False, and goes on to its wait
C28_Witness ==
    /\ ConnectFailed
    /\ pc = "wait"
    /\ publish_returned = << FALSE >>
    /\ state_tracker # None /\ state_tracker.current_state # None
    /\ exit_code = None

(* --------------------------------- C29 -------------------------------- *)
\* the conditions under which update reaches its last "else" (the pending
\* state changed direction): none of the tests before it succeeded
ReachesRestart(self, is_cloudy) ==
    /\ self.current_state # None
    /\ Some(is_cloudy) # self.current_state
    /\ self.pending_state # None
    /\ Some(is_cloudy) # self.pending_state

\* C29: in StateTracker.update the direction-flip branch is unreachable for
\* boolean readings: in no state a tracker reaches is there a boolean that
\* update would take to that branch (a pending candidate is always the
\* opposite of the confirmed state, so a reading that differs from the
\* confirmed state equals the candidate)
C29_RestartUnreachable ==
    /\ \A is_cloudy \in BOOLEAN : ~ReachesRestart(state_tracker, is_cloudy)
    /\ state_tracker.pending_state # None =>
          (/\ state_tracker.current_state # None
           /\ state_tracker.pending_state[1] = ~state_tracker.current_state[1])

\* a candidate is pending after two readings that differed from the
\* confirmed state: the second one was tested against the candidate
C29_Witness ==
    /\ state_tracker.pending_state # None
    /\ state_tracker.consecutive_count >= 2

(* --------------------------------- C30 -------------------------------- *)
\* the wait in every state: what was slept and what remains make up the
\* interval, nothing is slept inside a tick, and the loop head is reached
\* with the flag clear only when the whole interval was slept
C30_WaitState ==
    /\ slept # None =>
          (/\ wait_time >= 0
           /\ slept[1] + wait_time = config.interval)
    /\ pc \in TickPcs \cup HandlerPcs \cup { "wait" } => slept = None
    /\ pc \in { "sleep_test", "sleeping" } => slept # None
    /\ (pc = "loop" /\ slept # None /\ ~shutdown_requested) =>
          (slept = Some(config.interval) /\ wait_time = 0)

\* C30: with no shutdown request the wait between two ticks sleeps slices of
\* min(remaining, one second) until nothing remains, so that a tick that
\* follows another starts only after exactly the interval was slept; every
\* tick, gated, failed or complete, ends in that same wait (time is in
\* half seconds)
C30_FullWaitBetweenTicks ==
    /\ [](C30_WaitState)
    /\ [][ /\ (pc = "wait" /\ pc' # pc) =>
                (pc' = "sleep_test" /\ wait_time' = config.interval
                                    /\ slept' = Some(0))
           /\ (pc = "sleeping" /\ pc' # pc) =>
                (/\ slept'[1] - slept[1] = Min(wait_time, SleepSlice)
                 /\ slept'[1] > slept[1]
                 /\ wait_time' = wait_time - Min(wait_time, SleepSlice)
                 /\ pc' = "sleep_test")
           /\ (pc = "sleep_test" /\ pc' # pc /\ ~shutdown_requested) =>
                pc' = IF wait_time > 0 THEN "sleeping" ELSE "loop"
           /\ (pc \in { "skip", "publish" } \cup HandlerPcs /\ pc' # pc) =>
                pc' \in { "wait" } \cup HandlerPcs
           /\ (pc \in HandlerPcs /\ pc' # pc) => pc' = "wait"
           /\ (pc' = "gate" /\ pc # "gate") =>
                (/\ pc = "loop"
                 /\ slept \in { None, Some(config.interval) })
         ]_vars

\* the loop head is reached after a wait of the longest interval, slept in
\* two slices, the flag being clear: the next tick is about to start
C30_Witness ==
    /\ pc = "loop" /\ ~shutdown_requested
    /\ config.interval = MaxInterval
    /\ slept = Some(MaxInterval)
    /\ state_tracker.current_state # None

(* --------------------------------- C31 -------------------------------- *)
\* a step that is a connect callback, and the reason code it was given
IsConnectCallback == reason_codes' # reason_codes

DiscoveryPcs == { "discovery1", "discovery2", "discovery3" }

\* what the callbacks delivered so far have left behind
C31_CallbackState ==
    /\ (\A i \in 1 .. Len(reason_codes) : reason_codes[i] # 0) =>
          (~connected /\ transport = NoTransport /\ handed = NothingHanded)
    /\ ~config.ha_discovery =>
          (transport = NoTransport /\ handed = NothingHanded /\ cb_pc = "idle")
    /\ (config.ha_discovery /\ cb_pc = "idle"
          /\ \E i \in 1 .. Len(reason_codes) : reason_codes[i] = 0) =>
          handed.callback = ThreeDocuments
    /\ \A k \in 1 .. 3 :
          cb_pc = "discovery" \o ToString(k) =>
            handed.callback = SubSeq(ThreeDocuments, 1, k - 1)

\* C31: the discovery documents are published exactly when a connect
\* callback reports success (reason code 0) with ha_discovery enabled: every
\* such callback, a reconnect included, sets the flag and begins one
\* publication of the three documents, which is over before the next
\* callback; a callback with reason code 0 and ha_discovery disabled sets the
\* flag and publishes nothing; a callback with a failure code changes
\* nothing, it publishes nothing and does not set the flag (a publisher that
\* has had failure codes only is not connected); nothing is handed to the
\* transport but by a publication so begun
C31_DiscoveryOnSuccessOnly ==
    /\ [](C31_CallbackState)
    /\ [][ /\ IsConnectCallback =>
                LET reason_code == Last(reason_codes')
                IN  /\ (reason_code = 0 /\ config.ha_discovery) =>
                          (/\ connected' /\ cb_pc' = "discovery1"
                           /\ handed'.callback = <<>> /\ transport' = transport)
                    /\ (reason_code = 0 /\ ~config.ha_discovery) =>
                          (/\ connected' /\ cb_pc' = "idle"
                           /\ handed'.callback = <<>> /\ transport' = transport)
                    /\ reason_code # 0 =>
                          (/\ connected' = connected /\ cb_pc' = "idle"
                           /\ handed' = handed /\ transport' = transport)
           /\ (cb_pc' = "discovery1" /\ cb_pc # "discovery1") =>
                (IsConnectCallback /\ Last(reason_codes') = 0 /\ config.ha_discovery)
           /\ transport' # transport => cb_pc \in DiscoveryPcs
         ]_vars

\* a connect, a failed reconnect and a successful reconnect have been
\* delivered, and the publication the last one began is over
C31_Witness ==
    /\ reason_codes = << 0, 5, 0 >>
    /\ config.ha_discovery
    /\ cb_pc = "idle" /\ connected
    /\ handed.callback = ThreeDocuments

(* --------------------------------- C32 -------------------------------- *)
\* C32: after every update pending_state is None if and only if
\* consecutive_count is 0; while a transition is pending the counter is at
\* least 1, and with pending_count >= 2 it is below pending_count (it never
\* rests at or above the threshold)
C32_PendingIffCounting ==
    /\ state_tracker.pending_state = None <=> state_tracker.consecutive_count = 0
    /\ state_tracker.pending_state # None => state_tracker.consecutive_count >= 1
    /\ state_tracker.pending_count >= 2 =>
          state_tracker.consecutive_count < state_tracker.pending_count
    /\ state_tracker.consecutive_count >= 0

\* a transition is pending one reading short of the largest threshold
C32_Witness ==
    /\ state_tracker.pending_count = MaxPendingCount
    /\ state_tracker.pending_state # None
    /\ state_tracker.consecutive_count = MaxPendingCount - 1
    /\ Len(readings) >= MaxPendingCount

(* --------------------------------- C33 -------------------------------- *)
\* the tracker exists and its confirmed state is not Unknown
StateKnown == state_tracker # None /\ state_tracker.current_state # None

\* C33: once the first reading has been processed current_state is never
\* Unknown (None) again: every update leaves it known, and no step of the
\* service (an update, a gated tick, a failed tick, the wait, the shutdown)
\* takes a known state back to Unknown or replaces the tracker
C33_NeverUnknownAgain ==
    [][ /\ StateKnown => StateKnown'
        /\ (pc = "update" /\ pc' # pc /\ exc' = None) => StateKnown'
        /\ state_tracker # None =>
              (/\ state_tracker' # None
               /\ state_tracker'.pending_count = state_tracker.pending_count)
      ]_vars

\* a gated tick has ended with the confirmed state known
C33_Witness ==
    /\ StateKnown
    /\ pc = "wait"
    /\ tick_trace # <<>> /\ Last(tick_trace) = "skip"

(* --------------------------------- C34 -------------------------------- *)
\* main has ended with a publisher: its disconnect() has run, to the end
\* when there was a client, and as a call that finds no client otherwise
C34_DisconnectedAtExit ==
    /\ (pc = "exit" /\ mqtt_publisher) =>
          (/\ client \in { "stopped", "None" }
           /\ ~connected /\ cb_pc = "idle")
    /\ pc = "disconnect" => (mqtt_publisher /\ client = "stopping")
    /\ client \in { "stopping", "stopped" } => pc \in { "disconnect", "exit" }
    /\ client = "stopping" <=> pc = "disconnect"

\* C34: on every path out of main once the publisher exists (run_single
\* returning after its publish or after the daytime skip, run_service
\* returning, an exception answered with exit code 1) the finally clause
\* calls disconnect() exactly once: main ends only through it, the call is
\* entered only from the finally clause and never again, and from the call
\* on MqttPublisher.publish is not called; once disconnect() has returned
\* nothing at all is handed to the transport (while it waits for the
\* callback thread to end, a discovery publication already begun is
\* finished)
C34_DisconnectOnce ==
    /\ [](C34_DisconnectedAtExit)
    /\ [][ /\ (pc' = "exit" /\ pc # "exit") => pc \in { "finally", "disconnect" }
           /\ (pc = "finally" /\ pc' # pc) =>
                IF mqtt_publisher /\ client # "None"
                THEN pc' = "disconnect" /\ client' = "stopping"
                ELSE pc' = "exit" /\ client' = client
           /\ (pc' = "disconnect" /\ pc # "disconnect") => pc = "finally"
           /\ (pc = "disconnect" /\ pc' # pc) =>
                (pc' = "exit" /\ client' = "stopped" /\ cb_pc = "idle")
           /\ pc = "exit" => pc' = "exit"
           /\ pc \in { "finally", "disconnect", "exit" } =>
                (/\ publish_args' = publish_args
                 /\ publish_returned' = publish_returned
                 /\ handed'.control = handed.control
                 /\ transport'[StateTopic] = transport[StateTopic])
           /\ client \in { "stopping", "stopped" } =>
                (cb_pc' # cb_pc => cb_pc \in DiscoveryPcs)
           /\ client = "stopped" => (transport' = transport /\ handed' = handed)
         ]_vars

\* main has ended with exit code 1 after a connection over which the
\* discovery documents were sent, its client stopped
C34_Witness ==
    /\ pc = "exit" /\ mqtt_publisher
    /\ client = "stopped"
    /\ exit_code = Some(1)
    /\ handed.callback = ThreeDocuments

(* --------------------------------- C35 -------------------------------- *)
\* the length of the run of readings equal to v that ends the sequence rs
RunLength(rs, v) ==
    LET runs == { k \in 0 .. Len(rs) : AllLast(rs, k, v) }
    IN  CHOOSE k \in runs : \A j \in runs : j <= k

\* C35: in the legacy loop with a fixed PENDING >= 1, cloudCount and
\* clearCount are always the lengths of the current run of cloudy and of
\* clear readings (daytime ticks take no reading), and roofStatus is the
\* cloudy message 'Roof Closed' only when the last PENDING readings were all
\* cloudy, the clear message 'Roof Open' only when they were all clear
C35_LegacyCountsAreRuns ==
    /\ legacy.cloudCount = RunLength(readings, TRUE)
    /\ legacy.clearCount = RunLength(readings, FALSE)
    /\ legacy.roofStatus = CLOUDMSG => AllLast(readings, legacy.PENDING, TRUE)
    /\ legacy.roofStatus = CLEARMSG => AllLast(readings, legacy.PENDING, FALSE)

\* the roof is reported closed after readings that were not all cloudy, a
\* daytime tick having come last
C35_Witness ==
    /\ legacy.roofStatus = CLOUDMSG
    /\ legacy.PENDING >= 2
    /\ \E i \in 1 .. Len(readings) : ~readings[i]
    /\ legacy.statusFile = Some("Daytime")

====
